---- MODULE Spec2Model ----
(***************************************************************************)
(* Collab Khata backend (apps/backend/app): the relational store, the      *)
(* upload directory and the request handlers of the auth, brand,           *)
(* collaboration, payment and conversation/file routers as a state         *)
(* machine.  Tables are sequences of rows; a row's id is its index (the    *)
(* serial primary key; no handler deletes a row).  Optional column values  *)
(* are wrapped: None is <<>>, Some(v) is <<v>>.  Character strings are     *)
(* sequences of one-character strings so that strip(), lower() and         *)
(* Path.suffix are computed, not assumed.  Decimal amounts are integers in *)
(* units of 0.01.                                                          *)
(***************************************************************************)
EXTENDS Integers, Sequences, FiniteSets, TLC

VARIABLES users, brands, collabs, expectations, credits, logs, attachments,
          disk, now, today, inflight, resp

vars == <<users, brands, collabs, expectations, credits, logs, attachments,
          disk, now, today, inflight, resp>>

(***************************************************************************)
(* Bounds of the model.                                                    *)
(***************************************************************************)
MaxDate == 2
MaxAmount == 2
MaxCredits == 2
MaxInflight == 2
MaxSupplied == 2
MaxLogs == 3
MaxFiles == 2
MaxTime == 1
MaxCollabs == 1
MaxExpectations == 2
MaxBrands == 1

(***************************************************************************)
(* Python value helpers.                                                   *)
(***************************************************************************)
None == <<>>
Some(v) == <<v>>
IsNone(o) == o = <<>>
Val(o) == o[1]

Whitespace == {" ", "\t", "\n"}

RECURSIVE lstrip(_)
lstrip(s) == IF s # <<>> /\ Head(s) \in Whitespace THEN lstrip(Tail(s)) ELSE s

RECURSIVE rstrip(_)
rstrip(s) ==
  IF s # <<>> /\ s[Len(s)] \in Whitespace THEN rstrip(SubSeq(s, 1, Len(s) - 1)) ELSE s

strip(s) == rstrip(lstrip(s))

Dates == 1..MaxDate

(***************************************************************************)
(* HTTP responses: status code, detail of the HTTPException (a sequence of *)
(* its parts) and the rows of the response body.                           *)
(***************************************************************************)
Response(op, caller, id, code, detail, body) ==
  [op |-> op, caller |-> caller, id |-> id, code |-> code, detail |-> detail,
   body |-> body]

NoResponse == Response("none", 0, 0, 0, <<>>, <<>>)

(***************************************************************************)
(* models/collaboration.py                                                 *)
(***************************************************************************)
CollaborationStatus ==
  {"Lead", "Negotiating", "Confirmed", "InProduction", "Posted",
   "PaymentPending", "Overdue", "Paid", "Closed"}

Collaboration(user_id, brand_id, title, platform) ==
  [user_id |-> user_id, brand_id |-> brand_id, title |-> title,
   platform |-> platform, deliverables_text |-> None, agreed_amount |-> None,
   currency |-> <<"U", "S", "D">>, deadline_date |-> None, posting_date |-> None,
   status |-> "Lead", updated_at |-> 0]

Brand(user_id, name, contact_name, contact_email, contact_channel, notes, created_at) ==
  [user_id |-> user_id, name |-> name, contact_name |-> contact_name,
   contact_email |-> contact_email, contact_channel |-> contact_channel,
   notes |-> notes, created_at |-> created_at]

User(email, hashed_password) == [email |-> email, hashed_password |-> hashed_password]

(***************************************************************************)
(* Row lookups of the handlers: select ... where id == x and user_id == u. *)
(***************************************************************************)
brand_exists(u, id) == id \in DOMAIN brands

OwnedBrand(u, id) == id \in DOMAIN brands /\ brands[id].user_id = u

OwnedCollaboration(u, id) == id \in DOMAIN collabs /\ collabs[id].user_id = u

(***************************************************************************)
(* api/collaborations.py                                                   *)
(***************************************************************************)
CollabFrame == UNCHANGED <<users, brands, expectations, credits, logs, attachments,
                           disk, now, today, inflight>>

get_collaboration(u, collaboration_id) ==
  /\ resp' = IF ~OwnedCollaboration(u, collaboration_id)
             THEN Response("get_collaboration", u, collaboration_id, 404, <<"Collaboration not found">>, <<>>)
             ELSE Response("get_collaboration", u, collaboration_id, 200, <<>>, <<collabs[collaboration_id]>>)
  /\ UNCHANGED collabs
  /\ CollabFrame

valid_transitions_skipping ==
  [s \in CollaborationStatus |->
     CASE s = "Lead" -> {"Negotiating", "Confirmed"}
       [] s = "Negotiating" -> {"Confirmed", "Lead"}
       [] s = "Confirmed" -> {"InProduction", "Negotiating"}
       [] s = "InProduction" -> {"Posted", "Confirmed"}
       [] s = "Posted" -> {"PaymentPending", "InProduction"}
       [] s = "PaymentPending" -> {"Overdue", "Paid"}
       [] s = "Overdue" -> {"Paid", "PaymentPending"}
       [] s = "Paid" -> {"Closed"}
       [] s = "Closed" -> {}]

valid_transitions_reopening ==
  [s \in CollaborationStatus |->
     CASE s = "Lead" -> {"Negotiating"}
       [] s = "Negotiating" -> {"Confirmed", "Lead"}
       [] s = "Confirmed" -> {"InProduction", "Negotiating"}
       [] s = "InProduction" -> {"Posted", "Confirmed"}
       [] s = "Posted" -> {"PaymentPending", "InProduction"}
       [] s = "PaymentPending" -> {"Overdue", "Paid"}
       [] s = "Overdue" -> {"Paid", "PaymentPending"}
       [] s = "Paid" -> {"Closed"}
       [] s = "Closed" -> {"Paid"}]

valid_transitions_settling ==
  [s \in CollaborationStatus |->
     CASE s = "Lead" -> {"Negotiating"}
       [] s = "Negotiating" -> {"Confirmed", "Lead"}
       [] s = "Confirmed" -> {"InProduction", "Negotiating"}
       [] s = "InProduction" -> {"Posted", "Confirmed"}
       [] s = "Posted" -> {"PaymentPending", "InProduction", "Paid"}
       [] s = "PaymentPending" -> {"Overdue", "Paid"}
       [] s = "Overdue" -> {"Paid", "PaymentPending"}
       [] s = "Paid" -> {"Closed"}
       [] s = "Closed" -> {}]

valid_transitions ==
  [s \in CollaborationStatus |->
     CASE s = "Lead" -> {"Negotiating"}
       [] s = "Negotiating" -> {"Confirmed", "Lead"}
       [] s = "Confirmed" -> {"InProduction", "Negotiating"}
       [] s = "InProduction" -> {"Posted", "Confirmed"}
       [] s = "Posted" -> {"PaymentPending", "InProduction"}
       [] s = "PaymentPending" -> {"Overdue", "Paid"}
       [] s = "Overdue" -> {"Paid", "PaymentPending"}
       [] s = "Paid" -> {"Closed"}
       [] s = "Closed" -> {}]

posting_date_unchecked(new_status, posting_date) == FALSE

posting_date_missing(new_status, posting_date) ==
  new_status = "Posted" /\ IsNone(posting_date)

set_status_and_date(collaboration, new_status, posting_date) ==
  [collaboration EXCEPT
     !.posting_date = posting_date,
     !.status = new_status,
     !.updated_at = now]

set_status(collaboration, new_status, posting_date) ==
  [collaboration EXCEPT
     !.posting_date = IF new_status = "Posted" THEN posting_date ELSE @,
     !.status = new_status,
     !.updated_at = now]

update_collaboration_status_date_first(u, collaboration_id, new_status, posting_date) ==
  /\ IF ~OwnedCollaboration(u, collaboration_id)
     THEN /\ resp' = Response("update_collaboration_status", u,
                       collaboration_id, 404,
                       <<"Collaboration not found">>, <<>>)
          /\ UNCHANGED collabs
     ELSE LET collaboration == collabs[collaboration_id]
              current_status == collaboration.status
          IN IF posting_date_missing(new_status, posting_date)
             THEN /\ resp' = Response("update_collaboration_status", u,
                       collaboration_id, 400,
                               <<"Posting date is required when setting status to Posted">>,
                               <<>>)
                  /\ UNCHANGED collabs
             ELSE IF new_status \notin valid_transitions[current_status]
             THEN /\ resp' = Response("update_collaboration_status", u,
                       collaboration_id, 400,
                               <<"Invalid status transition from", current_status,
                                 "to", new_status>>, <<>>)
                  /\ UNCHANGED collabs
             ELSE LET updated == set_status(collaboration, new_status, posting_date)
                  IN /\ collabs' = [collabs EXCEPT ![collaboration_id] = updated]
                     /\ resp' = Response("update_collaboration_status", u,
                       collaboration_id, 200, <<>>,
                                         <<updated>>)
  /\ CollabFrame

update_collaboration_status(u, collaboration_id, new_status, posting_date) ==
  /\ IF ~OwnedCollaboration(u, collaboration_id)
     THEN /\ resp' = Response("update_collaboration_status", u,
                       collaboration_id, 404,
                       <<"Collaboration not found">>, <<>>)
          /\ UNCHANGED collabs
     ELSE LET collaboration == collabs[collaboration_id]
              current_status == collaboration.status
          IN IF new_status \notin valid_transitions[current_status]
             THEN /\ resp' = Response("update_collaboration_status", u,
                       collaboration_id, 400,
                               <<"Invalid status transition from", current_status,
                                 "to", new_status>>, <<>>)
                  /\ UNCHANGED collabs
             ELSE IF posting_date_missing(new_status, posting_date)
             THEN /\ resp' = Response("update_collaboration_status", u,
                       collaboration_id, 400,
                               <<"Posting date is required when setting status to Posted">>,
                               <<>>)
                  /\ UNCHANGED collabs
             ELSE LET updated == set_status(collaboration, new_status, posting_date)
                  IN /\ collabs' = [collabs EXCEPT ![collaboration_id] = updated]
                     /\ resp' = Response("update_collaboration_status", u,
                       collaboration_id, 200, <<>>,
                                         <<updated>>)
  /\ CollabFrame

(***************************************************************************)
(* Fixture of the collaboration specification: two registered accounts,    *)
(* each owning one brand and one collaboration in status Lead (as the      *)
(* property tests set up their data).                                      *)
(***************************************************************************)
Digest(password, salt) == [password |-> password, salt |-> salt]

FixtureUsers ==
  <<User(<<"a", "@", "x">>, Digest(<<"p">>, 1)), User(<<"b", "@", "x">>, Digest(<<"q">>, 1))>>

FixtureBrands ==
  <<Brand(1, Some(<<"A">>), None, None, None, None, 0),
    Brand(2, Some(<<"B">>), None, None, None, None, 0)>>

FixtureCollabs ==
  <<Collaboration(1, 1, <<"t">>, <<"i", "g">>), Collaboration(2, 2, <<"t">>, <<"y", "t">>)>>

UserIds == DOMAIN users

OptDates == {None} \cup {Some(d) : d \in Dates}

InitCollab ==
  /\ users = FixtureUsers
  /\ brands = FixtureBrands
  /\ collabs = FixtureCollabs
  /\ expectations = <<>>
  /\ credits = <<>>
  /\ logs = <<>>
  /\ attachments = <<>>
  /\ disk = {}
  /\ now = 0
  /\ today = 1
  /\ inflight = {}
  /\ resp = NoResponse

CollabIds == 1..(Len(collabs) + 1)

GetCollaboration == \E u \in UserIds, c \in CollabIds : get_collaboration(u, c)

StatusUpdates ==
  {r \in [status : CollaborationStatus, posting_date : OptDates] :
     r.status # "Posted" => r.posting_date \in {None, Some(1)}}

UpdateCollaborationStatus ==
  \E u \in UserIds, c \in CollabIds, status_data \in StatusUpdates :
    update_collaboration_status(u, c, status_data.status, status_data.posting_date)

NextCollab == GetCollaboration \/ UpdateCollaborationStatus

SpecCollab == InitCollab /\ [][NextCollab]_vars

(***************************************************************************)
(* models/payment.py                                                       *)
(***************************************************************************)
PaymentStatus == {"Pending", "Partial", "Completed", "Overdue"}

PaymentExpectation(collaboration_id, expected_amount, promised_date, status) ==
  [collaboration_id |-> collaboration_id, expected_amount |-> expected_amount,
   promised_date |-> promised_date, status |-> status]

PaymentCredit(payment_expectation_id, credited_amount) ==
  [payment_expectation_id |-> payment_expectation_id, credited_amount |-> credited_amount]

Amounts == 1..MaxAmount

(* expectation.payment_credits: the credit rows of one expectation. *)
payment_credits(payment_id) ==
  SelectSeq(credits, LAMBDA credit : credit.payment_expectation_id = payment_id)

RECURSIVE sum_credited(_)
sum_credited(rows) ==
  IF rows = <<>> THEN 0 ELSE Head(rows).credited_amount + sum_credited(Tail(rows))

(* select(PaymentExpectation).join(Collaboration).where(id, user_id) *)
expectation_exists(u, payment_id) == payment_id \in DOMAIN expectations

OwnedExpectation(u, payment_id) ==
  /\ payment_id \in DOMAIN expectations
  /\ collabs[expectations[payment_id].collaboration_id].user_id = u

(***************************************************************************)
(* api/payments.py                                                         *)
(***************************************************************************)
PaymentFrame == UNCHANGED <<users, brands, collabs, logs, attachments, disk, now,
                            inflight>>

new_status_completed_above(expectation, rows, day) ==
  LET total_credited == sum_credited(rows)
  IN IF total_credited > expectation.expected_amount THEN "Completed"
     ELSE IF total_credited > 0 THEN "Partial"
     ELSE IF ~IsNone(expectation.promised_date) /\ Val(expectation.promised_date) < day
     THEN "Overdue"
     ELSE "Pending"

new_status_date_first(expectation, rows, day) ==
  LET total_credited == sum_credited(rows)
  IN IF ~IsNone(expectation.promised_date) /\ Val(expectation.promised_date) < day
     THEN "Overdue"
     ELSE IF total_credited >= expectation.expected_amount THEN "Completed"
     ELSE IF total_credited > 0 THEN "Partial"
     ELSE "Pending"

(* new_status of _update_payment_status for an expectation with its credits loaded. *)
new_status(expectation, rows, day) ==
  LET total_credited == sum_credited(rows)
  IN IF total_credited >= expectation.expected_amount THEN "Completed"
     ELSE IF total_credited > 0 THEN "Partial"
     ELSE IF ~IsNone(expectation.promised_date) /\ Val(expectation.promised_date) < day
     THEN "Overdue"
     ELSE "Pending"

(* _update_payment_status: the row as stored after the call. *)
update_payment_status(expectation, rows) ==
  LET status == new_status(expectation, rows, today)
  IN IF status # expectation.status THEN [expectation EXCEPT !.status = status]
     ELSE expectation

PaymentExpectationResponse(payment_id, table, credit_table) ==
  [id |-> payment_id,
   collaboration_id |-> table[payment_id].collaboration_id,
   expected_amount |-> table[payment_id].expected_amount,
   promised_date |-> table[payment_id].promised_date,
   status |-> table[payment_id].status,
   payment_credits |->
     SelectSeq(credit_table, LAMBDA credit : credit.payment_expectation_id = payment_id)]

(* The ids of a table's rows, in ascending order. *)
Ids(table) == [i \in 1..Len(table) |-> i]

list_payment_expectations(u, collaboration_id) ==
  /\ IF ~OwnedCollaboration(u, collaboration_id)
     THEN /\ resp' = Response("list_payment_expectations", u, collaboration_id, 404,
                              <<"Collaboration not found">>, <<>>)
          /\ UNCHANGED expectations
     ELSE LET updated ==
                [p \in DOMAIN expectations |->
                   IF expectations[p].collaboration_id = collaboration_id
                   THEN update_payment_status(expectations[p], payment_credits(p))
                   ELSE expectations[p]]
              ids == SelectSeq(Ids(expectations),
                               LAMBDA p : expectations[p].collaboration_id = collaboration_id)
          IN /\ expectations' = updated
             /\ resp' = Response("list_payment_expectations", u, collaboration_id, 200, <<>>,
                                 [i \in DOMAIN ids |->
                                    PaymentExpectationResponse(ids[i], updated, credits)])
  /\ UNCHANGED <<credits, today>>
  /\ PaymentFrame

exceeds_expected(credited_amount, remaining_balance, expected_amount) ==
  credited_amount > expected_amount

exceeds_balance(credited_amount, remaining_balance, expected_amount) ==
  credited_amount > remaining_balance

create_payment_credit(u, payment_id, credited_amount) ==
  /\ IF ~OwnedExpectation(u, payment_id)
     THEN /\ resp' = Response("create_payment_credit", u, payment_id, 404,
                              <<"Payment expectation not found">>, <<>>)
          /\ UNCHANGED <<expectations, credits>>
     ELSE LET expectation == expectations[payment_id]
              total_credited == sum_credited(payment_credits(payment_id))
              remaining_balance == expectation.expected_amount - total_credited
          IN IF exceeds_balance(credited_amount, remaining_balance,
                                expectation.expected_amount)
             THEN /\ resp' = Response("create_payment_credit", u, payment_id, 400,
                                      <<"Credit amount", credited_amount,
                                        "exceeds remaining balance", remaining_balance>>,
                                      <<>>)
                  /\ UNCHANGED <<expectations, credits>>
             ELSE LET new_credit == PaymentCredit(payment_id, credited_amount)
                      refreshed == SelectSeq(Append(credits, new_credit),
                                     LAMBDA credit :
                                       credit.payment_expectation_id = payment_id)
                  IN /\ Len(credits) < MaxCredits
                     /\ credits' = Append(credits, new_credit)
                     /\ expectations' =
                          [expectations EXCEPT
                             ![payment_id] = update_payment_status(expectation, refreshed)]
                     /\ resp' = Response("create_payment_credit", u, payment_id, 201, <<>>,
                                         <<new_credit>>)
  /\ UNCHANGED today
  /\ PaymentFrame

(* date.today() moves on between requests. *)
NextDay ==
  /\ today < MaxDate
  /\ today' = today + 1
  /\ UNCHANGED <<users, brands, collabs, expectations, credits, logs, attachments,
                 disk, now, inflight, resp>>

(***************************************************************************)
(* Payment fixture: the accounts, brands and collaborations above; account *)
(* 1's collaboration has one expectation with any amount and promised      *)
(* date, account 2's has one of amount 1; both are Pending with no         *)
(* credits, as create_payment_expectation leaves them on day 1.            *)
(***************************************************************************)
ExpectationIds == 1..(Len(expectations) + 1)

InitPay ==
  /\ users = FixtureUsers
  /\ brands = FixtureBrands
  /\ collabs = FixtureCollabs
  /\ \E e \in Amounts, d \in OptDates :
       expectations = <<PaymentExpectation(1, e, d, "Pending"),
                        PaymentExpectation(2, 1, None, "Pending")>>
  /\ credits = <<>>
  /\ logs = <<>>
  /\ attachments = <<>>
  /\ disk = {}
  /\ now = 0
  /\ today = 1
  /\ inflight = {}
  /\ resp = NoResponse

ListPaymentExpectations ==
  \E u \in UserIds, c \in CollabIds : list_payment_expectations(u, c)

CreatePaymentCredit ==
  \E u \in UserIds, p \in ExpectationIds, a \in Amounts : create_payment_credit(u, p, a)

NextPay == ListPaymentExpectations \/ CreatePaymentCredit \/ NextDay

SpecPay == InitPay /\ [][NextPay]_vars

(***************************************************************************)
(* Inputs of the status recomputation: an expectation of account 1 with    *)
(* any amount, promised date and stored status, any credits (concurrent    *)
(* requests can take their total past the amount), on any day.             *)
(***************************************************************************)
CreditLists == UNION {[1..n -> Amounts] : n \in 0..MaxCredits}

InitStatus ==
  /\ users = FixtureUsers
  /\ brands = FixtureBrands
  /\ collabs = FixtureCollabs
  /\ \E e \in Amounts, d \in OptDates, s \in PaymentStatus :
       expectations = <<PaymentExpectation(1, e, d, s),
                        PaymentExpectation(2, 1, None, "Pending")>>
  /\ \E amounts \in CreditLists :
       credits = [i \in DOMAIN amounts |-> PaymentCredit(1, amounts[i])]
  /\ logs = <<>>
  /\ attachments = <<>>
  /\ disk = {}
  /\ now = 0
  /\ today \in Dates
  /\ inflight = {}
  /\ resp = NoResponse

NextStatus == ListPaymentExpectations \/ NextDay

SpecStatus == InitStatus /\ [][NextStatus]_vars

(***************************************************************************)
(* core/auth.py (not among the sources; after sections 4.3 and 4.5 of the  *)
(* specification): a digest is salted, and a plaintext verifies against a  *)
(* digest exactly when the digest was made from it.                        *)
(***************************************************************************)
Salts == {1, 2}

get_password_hash(password, salt) == Digest(password, salt)

verify_password(plain_password, hashed_password) ==
  hashed_password.password = plain_password

(* The user row with this email, if any: select(User).where(User.email == email). *)
user_by_email(email) ==
  SelectSeq(Ids(users), LAMBDA i : users[i].email = email)

(* authenticate_user: <<id>> of the account, or None. *)
authenticate_user(email, password) ==
  LET found == user_by_email(email)
  IN IF found = <<>> THEN None
     ELSE IF ~verify_password(password, users[found[1]].hashed_password) THEN None
     ELSE Some(found[1])

jwt_access_token_expire_minutes == 30

(* Python values of a token claim: an int or a str keeps its type through  *)
(* the encoding of the token.                                              *)
PyInt(n) == [type |-> "int", value |-> n]

PyStr(s) == [type |-> "str", value |-> s]

DecimalDigits == <<"0", "1", "2", "3", "4", "5", "6", "7", "8", "9">>

RECURSIVE decimal(_)
decimal(n) ==
  IF n < 10 THEN <<DecimalDigits[n + 1]>>
  ELSE decimal(n \div 10) \o <<DecimalDigits[(n % 10) + 1]>>

RECURSIVE parse_decimal(_)
parse_decimal(s) ==
  IF s = <<>> THEN 0
  ELSE 10 * parse_decimal(SubSeq(s, 1, Len(s) - 1))
       + (CHOOSE d \in 0..9 : DecimalDigits[d + 1] = s[Len(s)])

(* str(v) *)
str(v) == IF v.type = "int" THEN PyStr(decimal(v.value)) ELSE v

(* int(v) *)
int(v) == IF v.type = "str" THEN PyInt(parse_decimal(v.value)) ELSE v

create_access_token(data) ==
  [sub |-> data.sub, exp |-> now + jwt_access_token_expire_minutes]

(***************************************************************************)
(* api/auth.py                                                             *)
(***************************************************************************)
AuthFrame == UNCHANGED <<brands, collabs, expectations, credits, logs, attachments,
                         disk, now, today>>

UserResponse(id) == [id |-> id, email |-> users[id].email]

login_user_any(email, password) ==
  /\ resp' = LET found == user_by_email(email)
             IN IF found = <<>>
                THEN Response("login_user", 0, 0, 401,
                              <<"Invalid email or password", "WWW-Authenticate: Bearer">>,
                              <<>>)
                ELSE Response("login_user", 0, 0, 200, <<>>,
                              <<[access_token |-> create_access_token([sub |-> PyInt(found[1])]),
                                 token_type |-> "bearer"]>>)
  /\ UNCHANGED <<users, inflight>>
  /\ AuthFrame

login_user(email, password) ==
  /\ resp' = LET user == authenticate_user(email, password)
             IN IF IsNone(user)
                THEN Response("login_user", 0, 0, 401,
                              <<"Invalid email or password", "WWW-Authenticate: Bearer">>,
                              <<>>)
                ELSE Response("login_user", 0, 0, 200, <<>>,
                              <<[access_token |-> create_access_token([sub |-> PyInt(Val(user))]),
                                 token_type |-> "bearer"]>>)
  /\ UNCHANGED <<users, inflight>>
  /\ AuthFrame

Conflict == Response("register_user", 0, 0, 409, <<"Email address is already registered">>,
                     <<>>)

no_unique_email(email) == FALSE

(* users.email is unique: committing a second row with the email raises IntegrityError. *)
unique_email_violated(email) == user_by_email(email) # <<>>

(* register_user up to db.commit(): the existence check and the hashing. *)
register_user_begin(email, password, salt) ==
  /\ IF user_by_email(email) # <<>>
     THEN /\ resp' = Conflict
          /\ UNCHANGED inflight
     ELSE LET new_user == User(email, get_password_hash(password, salt))
          IN /\ new_user \notin inflight
             /\ Cardinality(inflight) < MaxInflight
             /\ inflight' = inflight \cup {new_user}
             /\ UNCHANGED resp
  /\ UNCHANGED users
  /\ AuthFrame

integrity_error_unhandled ==
  Response("register_user", 0, 0, 500, <<"Internal server error">>, <<>>)

(* except IntegrityError: rollback, then 409. *)
on_integrity_error == Conflict

(* register_user from db.commit() on. *)
register_user_commit(new_user) ==
  /\ new_user \in inflight
  /\ inflight' = inflight \ {new_user}
  /\ IF unique_email_violated(new_user.email)
     THEN /\ resp' = on_integrity_error
          /\ UNCHANGED users
     ELSE /\ users' = Append(users, new_user)
          /\ resp' = Response("register_user", 0, Len(users) + 1, 201, <<>>,
                              <<[id |-> Len(users) + 1, email |-> new_user.email]>>)
  /\ AuthFrame

Emails == {<<"a", "@", "x">>, <<"b", "@", "x">>}

Passwords == {<<>>, <<"p">>}

InitAuth ==
  /\ users = <<>>
  /\ brands = <<>>
  /\ collabs = <<>>
  /\ expectations = <<>>
  /\ credits = <<>>
  /\ logs = <<>>
  /\ attachments = <<>>
  /\ disk = {}
  /\ now = 0
  /\ today = 1
  /\ inflight = {}
  /\ resp = NoResponse

RegisterUserBegin ==
  \E email \in Emails, password \in Passwords, salt \in Salts :
    register_user_begin(email, password, salt)

RegisterUserCommit == \E new_user \in inflight : register_user_commit(new_user)

LoginUser == \E email \in Emails, password \in Passwords : login_user(email, password)

NextAuth == RegisterUserBegin \/ RegisterUserCommit \/ LoginUser

SpecAuth == InitAuth /\ [][NextAuth]_vars

(***************************************************************************)
(* api/brands.py.  A BrandUpdate request is the function from the fields   *)
(* the caller set to their values (None, or Some(string)); the parsed      *)
(* object holds None for every field that was not set.                     *)
(***************************************************************************)
BrandFrame == UNCHANGED <<users, collabs, expectations, credits, logs, attachments,
                          disk, now, today>>

BrandFields == {"name", "contact_name", "contact_email", "contact_channel", "notes"}

BrandUpdate(fields_set) ==
  [f \in BrandFields |-> IF f \in DOMAIN fields_set THEN fields_set[f] ELSE None]

model_dump(brand_data, fields_set) == brand_data

model_dump_exclude_unset(brand_data, fields_set) ==
  [f \in DOMAIN fields_set \cap DOMAIN brand_data |-> brand_data[f]]

(* Python truthiness of an optional string: neither None nor "". *)
Truthy(o) == ~IsNone(o) /\ Val(o) # <<>>

(* x.strip() if x else None *)
strip_or_none(o) == IF Truthy(o) THEN Some(strip(Val(o))) ELSE None

get_brand(u, brand_id) ==
  /\ resp' = IF ~OwnedBrand(u, brand_id)
             THEN Response("get_brand", u, brand_id, 404, <<"Brand not found">>, <<>>)
             ELSE Response("get_brand", u, brand_id, 200, <<>>, <<brands[brand_id]>>)
  /\ UNCHANGED brands
  /\ BrandFrame

update_brand(u, brand_id, fields_set) ==
  /\ IF ~OwnedBrand(u, brand_id)
     THEN /\ resp' = Response("update_brand", u, brand_id, 404, <<"Brand not found">>, <<>>)
          /\ UNCHANGED brands
     ELSE LET brand == brands[brand_id]
              dumped == model_dump_exclude_unset(BrandUpdate(fields_set), fields_set)
          IN IF "name" \in DOMAIN dumped
                /\ (~Truthy(dumped["name"]) \/ strip(Val(dumped["name"])) = <<>>)
             THEN /\ resp' = Response("update_brand", u, brand_id, 400,
                                      <<"Brand name cannot be empty">>, <<>>)
                  /\ UNCHANGED brands
             ELSE LET update_data ==
                        [f \in DOMAIN dumped |->
                           IF f = "name" THEN Some(strip(Val(dumped[f])))
                           ELSE IF ~IsNone(dumped[f]) THEN strip_or_none(dumped[f])
                           ELSE dumped[f]]
                      updated ==
                        [f \in DOMAIN brand |->
                           IF f \in DOMAIN update_data THEN update_data[f] ELSE brand[f]]
                  IN /\ brands' = [brands EXCEPT ![brand_id] = updated]
                     /\ resp' = Response("update_brand", u, brand_id, 200, <<>>,
                                         <<updated>>)
  /\ BrandFrame

(***************************************************************************)
(* Brand fixture: the two accounts; account 1 owns one brand, account 2    *)
(* owns none.  The server takes one request at a time: a request is        *)
(* received into inflight and then served by its handler.                  *)
(***************************************************************************)
FixtureBrand == Brand(1, Some(<<"A">>), Some(<<"n">>), None, None, None, 0)

InitBrand ==
  /\ users = FixtureUsers
  /\ brands = <<FixtureBrand>>
  /\ collabs = <<>>
  /\ expectations = <<>>
  /\ credits = <<>>
  /\ logs = <<>>
  /\ attachments = <<>>
  /\ disk = {}
  /\ now = 0
  /\ today = 1
  /\ inflight = {}
  /\ resp = NoResponse

BrandIds == 1..(Len(brands) + 1)

SuppliedStrings == {None, Some(<<>>), Some(<<" ">>), Some(<<" ", "b", " ">>)}

BrandUpdates ==
  UNION {[S -> SuppliedStrings] :
           S \in {T \in SUBSET BrandFields : Cardinality(T) <= MaxSupplied}}

Request(op, caller, id, body) == [op |-> op, caller |-> caller, id |-> id, body |-> body]

ReceiveBrandRequest ==
  /\ inflight = {}
  /\ \E u \in UserIds, b \in BrandIds :
       \/ inflight' = {Request("get_brand", u, b, <<>>)}
       \/ \E fields_set \in BrandUpdates :
            inflight' = {Request("update_brand", u, b, fields_set)}
  /\ resp' = NoResponse
  /\ UNCHANGED brands
  /\ BrandFrame

GetBrand ==
  \E r \in inflight :
    /\ r.op = "get_brand"
    /\ get_brand(r.caller, r.id)
    /\ inflight' = inflight \ {r}

UpdateBrand ==
  \E r \in inflight :
    /\ r.op = "update_brand"
    /\ update_brand(r.caller, r.id, r.body)
    /\ inflight' = inflight \ {r}

NextBrand == ReceiveBrandRequest \/ GetBrand \/ UpdateBrand

SpecBrand == InitBrand /\ [][NextBrand]_vars

(***************************************************************************)
(* api/conversations.py, conversation logs.  The handlers are taken with   *)
(* the synchronous Session their signatures declare.  created_at is the    *)
(* database's now() at the insert; the wall clock may be set back between  *)
(* two requests, and two inserts may fall on the same instant.             *)
(***************************************************************************)
CommunicationChannel == {"Email", "Instagram", "WhatsApp", "Phone", "InPerson", "Other"}

ConversationLog(collaboration_id, channel, message_text, created_at) ==
  [collaboration_id |-> collaboration_id, channel |-> channel,
   message_text |-> message_text, created_at |-> created_at]

ConversationLogResponse(id) ==
  [id |-> id, collaboration_id |-> logs[id].collaboration_id, channel |-> logs[id].channel,
   message_text |-> logs[id].message_text, created_at |-> logs[id].created_at]

ConvFrame == UNCHANGED <<users, brands, collabs, expectations, credits, attachments,
                         disk, today, inflight>>

CollaborationNotFound(op, u, collaboration_id) ==
  Response(op, u, collaboration_id, 404, <<"Collaboration not found">>, <<>>)

reverse_chronological(earlier, later) == earlier >= later

(* order_by(ConversationLog.created_at.asc()) *)
chronological(earlier, later) == earlier <= later

(* Every order the database may return the collaboration's logs in: rows   *)
(* with equal created_at come in any order.                                *)
conversation_logs(collaboration_id) ==
  LET ids == {i \in DOMAIN logs : logs[i].collaboration_id = collaboration_id}
      n == Cardinality(ids)
  IN {q \in [1..n -> ids] :
        /\ \A i, j \in 1..n : i # j => q[i] # q[j]
        /\ \A i, j \in 1..n :
             i < j => chronological(logs[q[i]].created_at, logs[q[j]].created_at)}

get_conversation_logs(u, collaboration_id) ==
  /\ IF ~OwnedCollaboration(u, collaboration_id)
     THEN resp' = CollaborationNotFound("get_conversation_logs", u, collaboration_id)
     ELSE \E q \in conversation_logs(collaboration_id) :
            resp' = Response("get_conversation_logs", u, collaboration_id, 200, <<>>,
                             [i \in 1..Len(q) |-> ConversationLogResponse(q[i])])
  /\ UNCHANGED <<logs, now>>
  /\ ConvFrame

create_conversation_log(u, collaboration_id, channel, message_text) ==
  /\ IF ~OwnedCollaboration(u, collaboration_id)
     THEN /\ resp' = CollaborationNotFound("create_conversation_log", u, collaboration_id)
          /\ UNCHANGED logs
     ELSE /\ Len(logs) < MaxLogs
          /\ logs' = Append(logs, ConversationLog(collaboration_id, channel, message_text, now))
          /\ resp' = Response("create_conversation_log", u, collaboration_id, 200, <<>>,
                              <<[id |-> Len(logs) + 1, collaboration_id |-> collaboration_id,
                                 channel |-> channel, message_text |-> message_text,
                                 created_at |-> now]>>)
  /\ UNCHANGED now
  /\ ConvFrame

(***************************************************************************)
(* Conversation fixture: the two accounts, each with its brand and         *)
(* collaboration, and no log yet.                                          *)
(***************************************************************************)
Times == 0..MaxTime

InitConv ==
  /\ users = FixtureUsers
  /\ brands = FixtureBrands
  /\ collabs = FixtureCollabs
  /\ expectations = <<>>
  /\ credits = <<>>
  /\ logs = <<>>
  /\ attachments = <<>>
  /\ disk = {}
  /\ now \in Times
  /\ today = 1
  /\ inflight = {}
  /\ resp = NoResponse

Channels == {"Email", "Other"}

Messages == {<<"m">>}

ClockChange ==
  /\ \E t \in Times : t # now /\ now' = t
  /\ UNCHANGED <<logs, resp>>
  /\ ConvFrame

GetConversationLogs ==
  \E u \in UserIds, c \in CollabIds : get_conversation_logs(u, c)

CreateConversationLog ==
  \E u \in UserIds, c \in CollabIds, channel \in Channels, message_text \in Messages :
    create_conversation_log(u, c, channel, message_text)

NextConv == ClockChange \/ GetConversationLogs \/ CreateConversationLog

SpecConv == InitConv /\ [][NextConv]_vars

(***************************************************************************)
(* api/conversations.py, file attachments.  A filename is a sequence of    *)
(* characters.  The disk is the set of files under the upload directory:   *)
(* the path of each and whether its bytes were written completely.         *)
(***************************************************************************)
ALLOWED_EXTENSIONS ==
  {<<".", "p", "d", "f">>, <<".", "d", "o", "c">>, <<".", "d", "o", "c", "x">>,
   <<".", "t", "x", "t">>, <<".", "r", "t", "f">>,
   <<".", "j", "p", "g">>, <<".", "j", "p", "e", "g">>, <<".", "p", "n", "g">>,
   <<".", "g", "i", "f">>, <<".", "b", "m", "p">>, <<".", "w", "e", "b", "p">>,
   <<".", "m", "p", "4">>, <<".", "a", "v", "i">>, <<".", "m", "o", "v">>,
   <<".", "w", "m", "v">>, <<".", "f", "l", "v">>, <<".", "w", "e", "b", "m">>,
   <<".", "m", "p", "3">>, <<".", "w", "a", "v">>, <<".", "a", "a", "c">>,
   <<".", "f", "l", "a", "c">>,
   <<".", "z", "i", "p">>, <<".", "r", "a", "r">>, <<".", "7", "z">>,
   <<".", "x", "l", "s">>, <<".", "x", "l", "s", "x">>, <<".", "c", "s", "v">>,
   <<".", "p", "p", "t">>, <<".", "p", "p", "t", "x">>}

MAX_FILE_SIZE == 50 * 1024 * 1024

UpperCase == <<"A", "B", "C", "D", "E", "F", "G", "H", "I", "J", "K", "L", "M", "N", "O", "P", "Q", "R", "S", "T", "U", "V", "W", "X", "Y", "Z">>

LowerCase == <<"a", "b", "c", "d", "e", "f", "g", "h", "i", "j", "k", "l", "m", "n", "o", "p", "q", "r", "s", "t", "u", "v", "w", "x", "y", "z">>

(* str.lower() *)
lower(s) ==
  [i \in 1..Len(s) |->
     IF \E k \in 1..26 : UpperCase[k] = s[i]
     THEN LowerCase[CHOOSE k \in 1..26 : UpperCase[k] = s[i]]
     ELSE s[i]]

(* s.rfind(c): the last position of c in s, 0 when there is none *)
RECURSIVE rfind(_, _)
rfind(s, c) ==
  IF s = <<>> THEN 0
  ELSE IF s[Len(s)] = c THEN Len(s)
  ELSE rfind(SubSeq(s, 1, Len(s) - 1), c)

(* Path(filename).name: the final path component *)
path_name(filename) == SubSeq(filename, rfind(filename, "/") + 1, Len(filename))

(* Path(filename).suffix *)
suffix(filename) ==
  LET name == path_name(filename)
      i == rfind(name, ".")
  IN IF 0 < i - 1 /\ i - 1 < Len(name) - 1 THEN SubSeq(name, i, Len(name)) ELSE <<>>

file_extension_as_given(filename) == suffix(filename)

file_extension(filename) == lower(suffix(filename))

(* mimetypes.guess_type(filename), on the types the requests below use *)
guess_type(filename) ==
  LET ext == lower(suffix(filename))
  IN IF ext = <<".", "p", "d", "f">> THEN "application/pdf"
     ELSE IF ext = <<".", "t", "x", "t">> THEN "text/plain"
     ELSE "application/octet-stream"

FileAttachment(collaboration_id, file_path, file_type, original_filename, created_at) ==
  [collaboration_id |-> collaboration_id, file_path |-> file_path, file_type |-> file_type,
   original_filename |-> original_filename, created_at |-> created_at]

FilePath(user_id, collaboration_id, unique_filename) ==
  [user_id |-> user_id, collaboration_id |-> collaboration_id,
   unique_filename |-> unique_filename]

(* uuid4(): a name no file has yet *)
uuid4 == Cardinality(disk) + 1

FileFrame == UNCHANGED <<users, brands, collabs, expectations, credits, logs, now, today>>

too_large_at_ceiling(size) == ~IsNone(size) /\ Val(size) # 0 /\ Val(size) >= MAX_FILE_SIZE

too_large(size) == ~IsNone(size) /\ Val(size) # 0 /\ Val(size) > MAX_FILE_SIZE

write_failure_ignored(table, file_attachment) == Append(table, file_attachment)

(* except Exception: raise HTTPException(500): the handler ends before the *)
(* record is built.                                                        *)
on_write_failure(table, file_attachment) == table

(* Outcomes of storing the bytes: the directory cannot be made, the file   *)
(* cannot be opened, the write breaks off, or the bytes are all written.   *)
WriteOutcomes == {"mkdir fails", "open fails", "write fails", "written"}

upload_file(u, collaboration_id, file, outcome) ==
  /\ IF ~OwnedCollaboration(u, collaboration_id)
     THEN /\ resp' = CollaborationNotFound("upload_file", u, collaboration_id)
          /\ UNCHANGED <<attachments, disk>>
     ELSE IF too_large(file.size)
     THEN /\ resp' = Response("upload_file", u, collaboration_id, 413,
                              <<"File size exceeds maximum allowed size of",
                                MAX_FILE_SIZE \div (1024 * 1024), "MB">>, <<>>)
          /\ UNCHANGED <<attachments, disk>>
     ELSE IF file_extension(file.filename) \notin ALLOWED_EXTENSIONS
     THEN /\ resp' = Response("upload_file", u, collaboration_id, 400,
                              <<"File type", file_extension(file.filename),
                                "is not allowed">>, <<>>)
          /\ UNCHANGED <<attachments, disk>>
     ELSE LET file_path ==
                FilePath(u, collaboration_id, <<uuid4, file_extension(file.filename)>>)
          IN \/ /\ outcome = "mkdir fails"
                /\ resp' = Response("upload_file", u, collaboration_id, 500,
                                    <<"Internal server error">>, <<>>)
                /\ UNCHANGED <<attachments, disk>>
             \/ /\ outcome = "open fails"
                /\ resp' = Response("upload_file", u, collaboration_id, 500,
                                    <<"Failed to save file">>, <<>>)
                /\ UNCHANGED <<attachments, disk>>
             \/ /\ outcome = "write fails"
                /\ Cardinality(disk) < MaxFiles
                /\ resp' = Response("upload_file", u, collaboration_id, 500,
                                    <<"Failed to save file">>, <<>>)
                /\ disk' = disk \cup {[path |-> file_path, complete |-> FALSE]}
                /\ attachments' =
                     on_write_failure(attachments,
                                      FileAttachment(collaboration_id, file_path,
                                                     guess_type(file.filename),
                                                     file.filename, now))
             \/ /\ outcome = "written"
                /\ Cardinality(disk) < MaxFiles
                /\ disk' = disk \cup {[path |-> file_path, complete |-> TRUE]}
                /\ attachments' =
                     Append(attachments,
                            FileAttachment(collaboration_id, file_path,
                                           guess_type(file.filename), file.filename, now))
                /\ resp' = Response("upload_file", u, collaboration_id, 200, <<>>,
                                    <<[id |-> Len(attachments) + 1,
                                       original_filename |-> file.filename,
                                       file_type |-> guess_type(file.filename),
                                       file_size |-> Len(file.content),
                                       created_at |-> now]>>)
  /\ FileFrame

(***************************************************************************)
(* File fixture: the two accounts, each with its brand and collaboration,  *)
(* an empty upload directory.  A request is received and then served.      *)
(***************************************************************************)
InitFile ==
  /\ users = FixtureUsers
  /\ brands = FixtureBrands
  /\ collabs = FixtureCollabs
  /\ expectations = <<>>
  /\ credits = <<>>
  /\ logs = <<>>
  /\ attachments = <<>>
  /\ disk = {}
  /\ now = 0
  /\ today = 1
  /\ inflight = {}
  /\ resp = NoResponse

Filenames ==
  {<<"a", ".", "p", "d", "f">>,
   <<"a", ".", "P", "D", "F">>,
   <<"a", ".", "e", "x", "e">>,
   <<"a">>,
   <<".", "p", "d", "f">>,
   <<"a", ".", "p", "d", "f", ".">>,
   <<"a", ".", "t", "x", "t", ".", "e", "x", "e">>,
   <<"d", "/", "b", ".", "T", "x", "t">>}

Sizes == {None, Some(0), Some(1), Some(MAX_FILE_SIZE), Some(MAX_FILE_SIZE + 1)}

Contents == {<<>>, <<"x">>}

Uploads ==
  [filename : Filenames, size : Sizes, content : Contents]

ReceiveUpload ==
  /\ inflight = {}
  /\ \E u \in UserIds, c \in CollabIds, file \in Uploads :
       inflight' = {Request("upload_file", u, c, file)}
  /\ resp' = NoResponse
  /\ UNCHANGED <<attachments, disk>>
  /\ FileFrame

UploadFile ==
  \E r \in inflight, outcome \in WriteOutcomes :
    /\ r.op = "upload_file"
    /\ upload_file(r.caller, r.id, r.body, outcome)
    /\ inflight' = inflight \ {r}

NextFile == ReceiveUpload \/ UploadFile

SpecFile == InitFile /\ [][NextFile]_vars

(***************************************************************************)
(* The listing and lookup handlers of the five routers.                    *)
(***************************************************************************)
(* order_by(key.desc()) over the selected rows: every order the database   *)
(* may return, rows with equal keys in any order.                          *)
order_by_desc(ids, key) ==
  LET n == Cardinality(ids)
  IN {q \in [1..n -> ids] :
        /\ \A i, j \in 1..n : i # j => q[i] # q[j]
        /\ \A i, j \in 1..n : i < j => key[q[i]] >= key[q[j]]}

order_by(ids, key) ==
  LET n == Cardinality(ids)
  IN {q \in [1..n -> ids] :
        /\ \A i, j \in 1..n : i # j => q[i] # q[j]
        /\ \A i, j \in 1..n : i < j => key[q[i]] <= key[q[j]]}

BrandResponse(id) ==
  [id |-> id, user_id |-> brands[id].user_id, name |-> brands[id].name,
   contact_name |-> brands[id].contact_name, contact_email |-> brands[id].contact_email,
   contact_channel |-> brands[id].contact_channel, notes |-> brands[id].notes,
   created_at |-> brands[id].created_at]

list_brands(u) ==
  /\ LET mine == {b \in DOMAIN brands : brands[b].user_id = u}
     IN \E q \in order_by_desc(mine, [b \in mine |-> brands[b].created_at]) :
          resp' = Response("list_brands", u, 0, 200, <<>>,
                           [i \in 1..Len(q) |-> BrandResponse(q[i])])
  /\ UNCHANGED <<brands, inflight>>
  /\ BrandFrame

CollaborationResponse(id) ==
  [id |-> id, user_id |-> collabs[id].user_id, brand_id |-> collabs[id].brand_id,
   title |-> collabs[id].title, platform |-> collabs[id].platform,
   deliverables_text |-> collabs[id].deliverables_text,
   agreed_amount |-> collabs[id].agreed_amount, currency |-> collabs[id].currency,
   deadline_date |-> collabs[id].deadline_date,
   posting_date |-> collabs[id].posting_date, status |-> collabs[id].status,
   updated_at |-> collabs[id].updated_at]

contains(s, sub) ==
  \E i \in 0..(Len(s) - Len(sub)) : SubSeq(s, i + 1, i + Len(sub)) = sub

(* column.ilike(f"%{pattern}%"), for patterns without % and _ *)
ilike(value, pattern) == contains(lower(value), lower(pattern))

list_collaborations(u, status_filter, brand_id, platform, limit, offset) ==
  /\ LET mine == {c \in DOMAIN collabs : collabs[c].user_id = u}
         filtered ==
           {c \in mine :
              /\ IsNone(status_filter) \/ collabs[c].status = Val(status_filter)
              /\ IsNone(brand_id) \/ Val(brand_id) = 0 \/ collabs[c].brand_id = Val(brand_id)
              /\ ~Truthy(platform) \/ ilike(collabs[c].platform, Val(platform))}
     IN \E q \in order_by_desc(filtered, [c \in filtered |-> collabs[c].updated_at]) :
          LET page == SubSeq(q, offset + 1,
                             IF offset + limit < Len(q) THEN offset + limit ELSE Len(q))
          IN resp' = Response("list_collaborations", u, 0, 200, <<>>,
                              <<[collaborations |->
                                   [i \in 1..Len(page) |-> CollaborationResponse(page[i])],
                                 total_count |-> Cardinality(mine),
                                 filtered_count |-> Cardinality(filtered)]>>)
  /\ UNCHANGED collabs
  /\ CollabFrame

OverduePaymentResponse(id) ==
  LET expectation == expectations[id]
      collaboration == collabs[expectation.collaboration_id]
  IN [id |-> id, collaboration_id |-> expectation.collaboration_id,
      collaboration_title |-> collaboration.title,
      brand_name |-> brands[collaboration.brand_id].name,
      expected_amount |-> expectation.expected_amount,
      promised_date |-> expectation.promised_date,
      days_overdue |-> today - Val(expectation.promised_date)]

(* The report's query does not load the credits of the rows it selects;    *)
(* _update_payment_status reads them through the relationship, a load the  *)
(* asynchronous session either refuses (the request ends in 500) or runs.  *)
LazyLoads == {"refused", "loaded"}

list_overdue_payments(u, lazy_load) ==
  /\ LET overdue ==
           {p \in DOMAIN expectations :
              /\ collabs[expectations[p].collaboration_id].user_id = u
              /\ ~IsNone(expectations[p].promised_date)
              /\ Val(expectations[p].promised_date) < today
              /\ expectations[p].status \in {"Pending", "Partial", "Overdue"}}
     IN IF overdue # {} /\ lazy_load = "refused"
        THEN /\ resp' = Response("list_overdue_payments", u, 0, 500,
                                 <<"Internal server error">>, <<>>)
             /\ UNCHANGED expectations
        ELSE \E q \in order_by(overdue,
                               [p \in overdue |-> Val(expectations[p].promised_date)]) :
               /\ expectations' =
                    [p \in DOMAIN expectations |->
                       IF p \in overdue
                       THEN update_payment_status(expectations[p], payment_credits(p))
                       ELSE expectations[p]]
               /\ resp' = Response("list_overdue_payments", u, 0, 200, <<>>,
                                   <<[overdue_payments |->
                                        [i \in 1..Len(q) |-> OverduePaymentResponse(q[i])],
                                      total_count |-> Len(q)]>>)
  /\ UNCHANGED <<credits, today>>
  /\ PaymentFrame

FileAttachmentResponse(id) ==
  [id |-> id, collaboration_id |-> attachments[id].collaboration_id,
   file_path |-> attachments[id].file_path, file_type |-> attachments[id].file_type,
   original_filename |-> attachments[id].original_filename,
   created_at |-> attachments[id].created_at]

get_file_attachments(u, collaboration_id) ==
  /\ IF ~OwnedCollaboration(u, collaboration_id)
     THEN resp' = CollaborationNotFound("get_file_attachments", u, collaboration_id)
     ELSE LET ids == {f \in DOMAIN attachments :
                        attachments[f].collaboration_id = collaboration_id}
          IN \E q \in order_by_desc(ids, [f \in ids |-> attachments[f].created_at]) :
               resp' = Response("get_file_attachments", u, collaboration_id, 200, <<>>,
                                [i \in 1..Len(q) |-> FileAttachmentResponse(q[i])])
  /\ UNCHANGED <<attachments, disk, inflight>>
  /\ FileFrame

any_file(u, file_id) == TRUE

(* download_file's second query: the file's collaboration, if the caller's *)
owns_file(u, file_id) == OwnedCollaboration(u, attachments[file_id].collaboration_id)

download_file(u, file_id) ==
  /\ resp' =
       IF file_id \notin DOMAIN attachments
       THEN Response("download_file", u, file_id, 404, <<"File not found">>, <<>>)
       ELSE IF ~owns_file(u, file_id)
       THEN Response("download_file", u, file_id, 404, <<"File not found">>, <<>>)
       ELSE IF attachments[file_id].file_path \notin {f.path : f \in disk}
       THEN Response("download_file", u, file_id, 404, <<"File not found on disk">>, <<>>)
       ELSE Response("download_file", u, file_id, 200, <<>>,
                     <<[path |-> attachments[file_id].file_path,
                        filename |-> attachments[file_id].original_filename,
                        media_type |-> attachments[file_id].file_type]>>)
  /\ UNCHANGED <<attachments, disk, inflight>>
  /\ FileFrame

(***************************************************************************)
(* Isolation fixture: each of the two accounts owns a brand, a             *)
(* collaboration, a payment expectation with one credit, a conversation   *)
(* log and a file attachment; the second account's file has been removed   *)
(* from the disk.                                                          *)
(***************************************************************************)
FixturePath(u) == FilePath(u, u, <<u, <<".", "p", "d", "f">>>>)

FixtureAttachment(u) ==
  FileAttachment(u, FixturePath(u), "application/pdf", <<"a", ".", "p", "d", "f">>, 0)

InitIso ==
  /\ users = FixtureUsers
  /\ brands = FixtureBrands
  /\ collabs = FixtureCollabs
  /\ expectations = <<PaymentExpectation(1, 2, Some(1), "Partial"),
                      PaymentExpectation(2, 2, Some(1), "Partial")>>
  /\ credits = <<PaymentCredit(1, 1), PaymentCredit(2, 1)>>
  /\ logs = <<ConversationLog(1, "Email", <<"m">>, 0), ConversationLog(2, "Email", <<"m">>, 0)>>
  /\ attachments = <<FixtureAttachment(1), FixtureAttachment(2)>>
  /\ disk = {[path |-> FixturePath(1), complete |-> TRUE]}
  /\ now = 0
  /\ today = 1
  /\ inflight = {}
  /\ resp = NoResponse

FileIds == 1..(Len(attachments) + 1)

StatusFilters == {None, Some("Lead"), Some("Paid")}

BrandFilters == {None, Some(0), Some(1), Some(2)}

PlatformFilters == {None, Some(<<>>), Some(<<"G">>)}

Limits == {1, 50}

Offsets == {0, 1}

ListBrands == \E u \in UserIds : list_brands(u)

LookupBrand == \E u \in UserIds, b \in BrandIds : get_brand(u, b) /\ UNCHANGED inflight

ListCollaborations ==
  \E u \in UserIds, status_filter \in StatusFilters, brand_id \in BrandFilters,
     platform \in PlatformFilters, limit \in Limits, offset \in Offsets :
    list_collaborations(u, status_filter, brand_id, platform, limit, offset)

ListOverduePayments ==
  \E u \in UserIds, lazy_load \in LazyLoads : list_overdue_payments(u, lazy_load)

GetFileAttachments == \E u \in UserIds, c \in CollabIds : get_file_attachments(u, c)

DownloadFile == \E u \in UserIds, f \in FileIds : download_file(u, f)

NextIso ==
  \/ ListBrands
  \/ LookupBrand
  \/ ListCollaborations
  \/ GetCollaboration
  \/ ListPaymentExpectations
  \/ ListOverduePayments
  \/ GetConversationLogs
  \/ GetFileAttachments
  \/ DownloadFile
  \/ CreateConversationLog
  \/ NextDay

SpecIso == InitIso /\ [][NextIso]_vars

(***************************************************************************)
(* api/collaborations.py, create and general update.  A request body is    *)
(* the function from the keys the caller sent to their values; the schema  *)
(* keeps the keys it declares and ignores every other key.                 *)
(***************************************************************************)
CollaborationCreateFields ==
  {"brand_id", "title", "platform", "deliverables_text", "agreed_amount", "currency",
   "deadline_date"}

CollaborationFields == CollaborationCreateFields \cup {"status", "posting_date"}

CollaborationUpdateFields == CollaborationCreateFields

(* str.upper() *)
upper(s) ==
  [i \in 1..Len(s) |->
     IF \E k \in 1..26 : LowerCase[k] = s[i]
     THEN UpperCase[CHOOSE k \in 1..26 : LowerCase[k] = s[i]]
     ELSE s[i]]

(* Field(..., min_length=1) on title and platform, min_length=3 and        *)
(* max_length=3 on currency: the request is answered 422 before the        *)
(* handler runs.                                                           *)
invalid_body(body) ==
  \/ \E f \in {"title", "platform"} \cap DOMAIN body :
       ~IsNone(body[f]) /\ Val(body[f]) = <<>>
  \/ "currency" \in DOMAIN body /\ ~IsNone(body["currency"])
     /\ Len(Val(body["currency"])) # 3

ValidationError(op, u, id) == Response(op, u, id, 422, <<"validation error">>, <<>>)

BrandNotOwned(op, u, id) ==
  Response(op, u, id, 400, <<"Brand not found or does not belong to the current user">>,
           <<>>)

requested_status(body) == IF "status" \in DOMAIN body THEN body["status"] ELSE "Lead"

(* status=CollaborationStatus.LEAD *)
initial_status(body) == "Lead"

create_collaboration(u, body) ==
  /\ IF invalid_body(body) \/ ~({"brand_id", "title", "platform"} \subseteq DOMAIN body)
        \/ IsNone(body["title"]) \/ IsNone(body["platform"])
     THEN /\ resp' = ValidationError("create_collaboration", u, 0)
          /\ UNCHANGED collabs
     ELSE IF ~OwnedBrand(u, body["brand_id"])
     THEN /\ resp' = BrandNotOwned("create_collaboration", u, 0)
          /\ UNCHANGED collabs
     ELSE LET given(f, default) == IF f \in DOMAIN body THEN body[f] ELSE default
              currency == given("currency", Some(<<"U", "S", "D">>))
              new_collaboration ==
                [Collaboration(u, body["brand_id"], strip(Val(body["title"])),
                               strip(Val(body["platform"])))
                   EXCEPT !.deliverables_text = strip_or_none(given("deliverables_text", None)),
                          !.agreed_amount = given("agreed_amount", None),
                          !.currency = upper(Val(IF IsNone(currency)
                                                 THEN Some(<<"U", "S", "D">>) ELSE currency)),
                          !.deadline_date = given("deadline_date", None),
                          !.status = initial_status(body),
                          !.updated_at = now]
          IN /\ Len(collabs) < MaxCollabs
             /\ collabs' = Append(collabs, new_collaboration)
             /\ resp' = Response("create_collaboration", u, Len(collabs) + 1, 201, <<>>,
                                 <<new_collaboration>>)
  /\ CollabFrame

(* nullable=False on brand_id, title, platform and currency: the commit    *)
(* of a null raises IntegrityError, which the handler does not catch.      *)
not_null_violated(update_data) ==
  \E f \in {"title", "platform", "currency"} \cap DOMAIN update_data :
    IsNone(update_data[f])

update_collaboration(u, collaboration_id, body) ==
  /\ IF invalid_body(body)
     THEN /\ resp' = ValidationError("update_collaboration", u, collaboration_id)
          /\ UNCHANGED collabs
     ELSE IF ~OwnedCollaboration(u, collaboration_id)
     THEN /\ resp' = CollaborationNotFound("update_collaboration", u, collaboration_id)
          /\ UNCHANGED collabs
     ELSE LET dumped == [f \in DOMAIN body \cap CollaborationUpdateFields |-> body[f]]
          IN IF "brand_id" \in DOMAIN dumped /\ ~OwnedBrand(u, dumped["brand_id"])
             THEN /\ resp' = BrandNotOwned("update_collaboration", u, collaboration_id)
                  /\ UNCHANGED collabs
             ELSE LET update_data ==
                        [f \in DOMAIN dumped |->
                           IF f \in {"title", "platform", "deliverables_text"}
                           THEN strip_or_none(dumped[f])
                           ELSE IF f = "currency" /\ Truthy(dumped[f])
                           THEN Some(upper(Val(dumped[f])))
                           ELSE dumped[f]]
                      stored(f) == IF f \in {"title", "platform", "currency"}
                                   THEN Val(update_data[f]) ELSE update_data[f]
                      written ==
                        [f \in DOMAIN collabs[collaboration_id] |->
                           IF f \in DOMAIN update_data THEN stored(f)
                           ELSE collabs[collaboration_id][f]]
                      updated ==
                        IF written = collabs[collaboration_id] THEN written
                        ELSE [written EXCEPT !.updated_at = now]
                  IN IF not_null_violated(update_data)
                     THEN /\ resp' = Response("update_collaboration", u, collaboration_id,
                                              500, <<"Internal server error">>, <<>>)
                          /\ UNCHANGED collabs
                     ELSE /\ collabs' = [collabs EXCEPT ![collaboration_id] = updated]
                          /\ resp' = Response("update_collaboration", u, collaboration_id,
                                              200, <<>>, <<updated>>)
  /\ CollabFrame

(***************************************************************************)
(* Workflow fixture: the two accounts with their brands and no             *)
(* collaboration yet.                                                      *)
(***************************************************************************)
InitFlow ==
  /\ users = FixtureUsers
  /\ brands = FixtureBrands
  /\ collabs = <<>>
  /\ expectations = <<>>
  /\ credits = <<>>
  /\ logs = <<>>
  /\ attachments = <<>>
  /\ disk = {}
  /\ now = 0
  /\ today = 1
  /\ inflight = {}
  /\ resp = NoResponse

Extras ==
  {<<>>, [status |-> "Closed", posting_date |-> Some(1)]}

CreateBodies ==
  {[brand_id |-> b, title |-> Some(<<" ", "t">>), platform |-> Some(<<"i", "g">>)] @@ x :
     b \in DOMAIN brands, x \in Extras}

UpdateBodies ==
  {[title |-> Some(<<"b", " ">>)] @@ x : x \in Extras}
  \cup Extras
  \cup {[brand_id |-> b] : b \in DOMAIN brands}
  \cup {[title |-> None]}

FlowStatusUpdates ==
  {r \in [status : {"Negotiating", "Confirmed", "InProduction", "Posted"},
          posting_date : {None, Some(1)}] :
     r.status # "Posted" => r.posting_date = None}

CreateCollaboration ==
  \E u \in UserIds, body \in CreateBodies : create_collaboration(u, body)

UpdateCollaboration ==
  \E u \in UserIds, c \in CollabIds, body \in UpdateBodies :
    update_collaboration(u, c, body)

FlowUpdateStatus ==
  \E u \in UserIds, c \in CollabIds, status_data \in FlowStatusUpdates :
    update_collaboration_status(u, c, status_data.status, status_data.posting_date)

NextFlow == CreateCollaboration \/ UpdateCollaboration \/ FlowUpdateStatus

SpecFlow == InitFlow /\ [][NextFlow]_vars

(***************************************************************************)
(* create_payment_credit as two steps of one request, with other requests  *)
(* free to run between them: the read of the expectation with its credits  *)
(* and the balance check, then the insert, the commits and the status      *)
(* recomputation.  A request past the check waits in inflight with the     *)
(* number of its session.                                                  *)
(***************************************************************************)
RaceFrame == UNCHANGED <<users, brands, collabs, logs, attachments, disk, now, today>>

with_for_update(payment_id) == \A r \in inflight : r.id # payment_id

(* The select of the expectation takes no row lock: a second request reads *)
(* it while the first is between its check and its commit.                 *)
expectation_readable(payment_id) == TRUE

free_session == CHOOSE n \in 1..(Cardinality(inflight) + 1) :
                  \A r \in inflight : r.body.session # n

create_payment_credit_check(u, payment_id, credited_amount) ==
  /\ expectation_readable(payment_id)
  /\ IF ~OwnedExpectation(u, payment_id)
     THEN /\ resp' = Response("create_payment_credit", u, payment_id, 404,
                              <<"Payment expectation not found">>, <<>>)
          /\ UNCHANGED inflight
     ELSE LET expectation == expectations[payment_id]
              total_credited == sum_credited(payment_credits(payment_id))
              remaining_balance == expectation.expected_amount - total_credited
          IN IF exceeds_balance(credited_amount, remaining_balance,
                                expectation.expected_amount)
             THEN /\ resp' = Response("create_payment_credit", u, payment_id, 400,
                                      <<"Credit amount", credited_amount,
                                        "exceeds remaining balance", remaining_balance>>,
                                      <<>>)
                  /\ UNCHANGED inflight
             ELSE /\ Cardinality(inflight) < MaxInflight
                  /\ Len(credits) + Cardinality(inflight) < MaxCredits
                  /\ inflight' = inflight \cup
                       {Request("create_payment_credit", u, payment_id,
                                [credited_amount |-> credited_amount,
                                 session |-> free_session])}
                  /\ UNCHANGED resp
  /\ UNCHANGED <<expectations, credits>>
  /\ RaceFrame

create_payment_credit_commit(r) ==
  /\ r \in inflight
  /\ inflight' = inflight \ {r}
  /\ LET new_credit == PaymentCredit(r.id, r.body.credited_amount)
         refreshed == SelectSeq(Append(credits, new_credit),
                                LAMBDA credit : credit.payment_expectation_id = r.id)
     IN /\ credits' = Append(credits, new_credit)
        /\ expectations' =
             [expectations EXCEPT ![r.id] = update_payment_status(expectations[r.id],
                                                                  refreshed)]
        /\ resp' = Response("create_payment_credit", r.caller, r.id, 201, <<>>,
                            <<new_credit>>)
  /\ RaceFrame

CheckPaymentCredit ==
  \E u \in UserIds, p \in ExpectationIds, a \in Amounts :
    create_payment_credit_check(u, p, a)

CommitPaymentCredit == \E r \in inflight : create_payment_credit_commit(r)

NextRace == CheckPaymentCredit \/ CommitPaymentCredit

SpecRace == InitPay /\ [][NextRace]_vars

(***************************************************************************)
(* create_payment_expectation.  The row is committed with status Pending;  *)
(* _update_payment_status then reads new_expectation.payment_credits,      *)
(* which refresh() does not load: a lazy load, refused or run as in the    *)
(* overdue report.  Refused, the request ends in 500 after the commit.     *)
(***************************************************************************)
create_payment_expectation(u, collaboration_id, amount, promised_date, lazy_load) ==
  /\ IF ~OwnedCollaboration(u, collaboration_id)
     THEN /\ resp' = CollaborationNotFound("create_payment_expectation", u,
                                           collaboration_id)
          /\ UNCHANGED expectations
     ELSE LET new_expectation ==
                PaymentExpectation(collaboration_id, amount, promised_date,
                                   "Pending")
              payment_id == Len(expectations) + 1
              updated == update_payment_status(new_expectation, <<>>)
          IN /\ Len(expectations) < MaxExpectations
             /\ IF lazy_load = "refused"
                THEN /\ expectations' = Append(expectations, new_expectation)
                     /\ resp' = Response("create_payment_expectation", u,
                                         collaboration_id, 500,
                                         <<"Internal server error">>, <<>>)
                ELSE /\ expectations' = Append(expectations, updated)
                     /\ resp' = Response("create_payment_expectation", u,
                                         collaboration_id, 201, <<>>,
                                         <<PaymentExpectationResponse(
                                             payment_id, Append(expectations, updated),
                                             credits)>>)
  /\ UNCHANGED <<credits, today>>
  /\ PaymentFrame

(***************************************************************************)
(* Ledger fixture: the accounts, brands and collaborations above and no    *)
(* expectation yet, on day 1.                                              *)
(***************************************************************************)
InitLedger ==
  /\ users = FixtureUsers
  /\ brands = FixtureBrands
  /\ collabs = FixtureCollabs
  /\ expectations = <<>>
  /\ credits = <<>>
  /\ logs = <<>>
  /\ attachments = <<>>
  /\ disk = {}
  /\ now = 0
  /\ today = 1
  /\ inflight = {}
  /\ resp = NoResponse

CreatePaymentExpectation ==
  \E u \in UserIds, c \in CollabIds, a \in Amounts, d \in OptDates,
     lazy_load \in LazyLoads :
    create_payment_expectation(u, c, a, d, lazy_load)

NextLedger ==
  \/ CreatePaymentExpectation
  \/ CreatePaymentCredit
  \/ ListPaymentExpectations
  \/ ListOverduePayments
  \/ NextDay

SpecLedger == InitLedger /\ [][NextLedger]_vars

(***************************************************************************)
(* core/auth.py, the per-request resolution of the calling account (not    *)
(* among the sources; after section 4.3 of the specification): the token   *)
(* is decoded and verified, its subject extracted and the account loaded;  *)
(* a missing, malformed or expired token, or one naming no account, is     *)
(* answered 401.  RFC 7519 makes the subject a string; the signing         *)
(* primitive either enforces that when it decodes or does not.             *)
(***************************************************************************)
SubjectChecks == {"string required", "any type"}

verify_token(token, subject_check) ==
  IF IsNone(token) THEN None
  ELSE IF Val(token).exp <= now THEN None
  ELSE IF Val(token).sub.type # "str" /\ subject_check = "string required" THEN None
  ELSE token

get_current_user(token, subject_check) ==
  LET payload == verify_token(token, subject_check)
  IN IF IsNone(payload) THEN None
     ELSE LET user_id == int(Val(payload).sub).value
          IN IF user_id \in DOMAIN users THEN Some(user_id) ELSE None

get_current_user_profile(token, subject_check) ==
  /\ resp' = LET current_user == get_current_user(token, subject_check)
             IN IF IsNone(current_user)
                THEN Response("get_current_user_profile", 0, 0, 401,
                              <<"Could not validate credentials",
                                "WWW-Authenticate: Bearer">>, <<>>)
                ELSE Response("get_current_user_profile", Val(current_user), 0, 200,
                              <<>>, <<UserResponse(Val(current_user))>>)
  /\ UNCHANGED <<users, inflight>>
  /\ AuthFrame

(* The client presents no token, or the token its login just returned. *)
GetCurrentUserProfile ==
  \E subject_check \in SubjectChecks :
    \/ get_current_user_profile(None, subject_check)
    \/ /\ resp.op = "login_user"
       /\ resp.code = 200
       /\ get_current_user_profile(Some(resp.body[1].access_token), subject_check)

NextSession == RegisterUserBegin \/ RegisterUserCommit \/ LoginUser \/ GetCurrentUserProfile

SpecSession == InitAuth /\ [][NextSession]_vars

(***************************************************************************)
(* api/brands.py, create.  A BrandCreate body is the function from the     *)
(* keys the caller sent to their values; name is a required str, so a body *)
(* without name or with a null name is answered 422 before the handler.    *)
(***************************************************************************)
name_falsy(name) == ~Truthy(name)

(* not brand_data.name or not brand_data.name.strip() *)
name_missing(name) == ~Truthy(name) \/ strip(Val(name)) = <<>>

create_brand(u, body) ==
  /\ IF "name" \notin DOMAIN body \/ IsNone(body["name"])
     THEN /\ resp' = Response("create_brand", u, 0, 422, <<"validation error">>, <<>>)
          /\ UNCHANGED brands
     ELSE IF name_missing(body["name"])
     THEN /\ resp' = Response("create_brand", u, 0, 400, <<"Brand name is required">>,
                              <<>>)
          /\ UNCHANGED brands
     ELSE LET brand_data == BrandUpdate(body)
              new_brand == Brand(u, Some(strip(Val(brand_data["name"]))),
                                 strip_or_none(brand_data["contact_name"]),
                                 strip_or_none(brand_data["contact_email"]),
                                 strip_or_none(brand_data["contact_channel"]),
                                 strip_or_none(brand_data["notes"]), now)
          IN /\ Len(brands) < MaxBrands
             /\ brands' = Append(brands, new_brand)
             /\ resp' = Response("create_brand", u, Len(brands) + 1, 201, <<>>,
                                 <<new_brand>>)
  /\ BrandFrame

(***************************************************************************)
(* Brand-name fixture: the two accounts and no brand yet; a request is     *)
(* received into inflight and then served by its handler.                  *)
(***************************************************************************)
InitNames ==
  /\ users = FixtureUsers
  /\ brands = <<>>
  /\ collabs = <<>>
  /\ expectations = <<>>
  /\ credits = <<>>
  /\ logs = <<>>
  /\ attachments = <<>>
  /\ disk = {}
  /\ now = 0
  /\ today = 1
  /\ inflight = {}
  /\ resp = NoResponse

SuppliedNames == SuppliedStrings \cup {Some(<<"A">>), Some(<<"\t", "c", " ", "d", "\n">>)}

NameBodies ==
  {<<>>, [notes |-> Some(<<" ">>)]}
  \cup {[name |-> n] : n \in SuppliedNames}
  \cup {[name |-> n, contact_name |-> Some(<<" ", "n">>)] : n \in SuppliedNames}

ReceiveNameRequest ==
  /\ inflight = {}
  /\ \E u \in UserIds, body \in NameBodies :
       \/ inflight' = {Request("create_brand", u, 0, body)}
       \/ \E b \in BrandIds : inflight' = {Request("update_brand", u, b, body)}
  /\ resp' = NoResponse
  /\ UNCHANGED brands
  /\ BrandFrame

CreateBrand ==
  \E r \in inflight :
    /\ r.op = "create_brand"
    /\ create_brand(r.caller, r.body)
    /\ inflight' = inflight \ {r}

NextNames == ReceiveNameRequest \/ CreateBrand \/ UpdateBrand

SpecNames == InitNames /\ [][NextNames]_vars

(***************************************************************************)
(* Collaboration create and update with titles and platforms that are      *)
(* plain, padded or whitespace-only, on the workflow fixture.              *)
(***************************************************************************)
SuppliedTitles == {Some(<<" ">>), Some(<<" ", "t">>), Some(<<"t">>)}

SuppliedPlatforms == {Some(<<" ", " ">>), Some(<<"i", "g">>), Some(<<"y", "t", " ">>)}

TitledCreateBodies ==
  {[brand_id |-> b, title |-> t, platform |-> p] :
     b \in DOMAIN brands, t \in SuppliedTitles, p \in SuppliedPlatforms}

TitledUpdateBodies ==
  {[title |-> t] : t \in SuppliedTitles \cup {Some(<<>>)}}
  \cup {[platform |-> p] : p \in SuppliedPlatforms}

CreateTitled ==
  \E u \in UserIds, body \in TitledCreateBodies : create_collaboration(u, body)

UpdateTitled ==
  \E u \in UserIds, c \in CollabIds, body \in TitledUpdateBodies :
    update_collaboration(u, c, body)

NextTitles == CreateTitled \/ UpdateTitled

SpecTitles == InitFlow /\ [][NextTitles]_vars

(***************************************************************************)
(* Collaboration create and update naming the caller's brand, the other    *)
(* account's brand and a brand that does not exist, with and without a     *)
(* user_id key in the body, next to brand updates and the first status     *)
(* update.                                                                 *)
(***************************************************************************)
OwnerExtras == {<<>>, [user_id |-> 2]}

ReferencingCreateBodies ==
  {[brand_id |-> b, title |-> Some(<<"t">>), platform |-> Some(<<"i", "g">>)] @@ x :
     b \in BrandIds, x \in OwnerExtras}

ReferencingUpdateBodies ==
  {[brand_id |-> b] @@ x : b \in BrandIds, x \in OwnerExtras}
  \cup {[title |-> Some(<<"b">>)] @@ x : x \in OwnerExtras}

CreateReferencing ==
  \E u \in UserIds, body \in ReferencingCreateBodies : create_collaboration(u, body)

UpdateReferencing ==
  \E u \in UserIds, c \in CollabIds, body \in ReferencingUpdateBodies :
    update_collaboration(u, c, body)

RenameBrand ==
  \E u \in UserIds, b \in BrandIds, x \in OwnerExtras :
    /\ update_brand(u, b, [name |-> Some(<<"Z">>)] @@ x)
    /\ UNCHANGED inflight

Negotiate ==
  \E u \in UserIds, c \in CollabIds : update_collaboration_status(u, c, "Negotiating", None)

NextRefs == CreateReferencing \/ UpdateReferencing \/ RenameBrand \/ Negotiate

SpecRefs == InitFlow /\ [][NextRefs]_vars

(***************************************************************************)
(* The status workflow next to general updates whose body carries a        *)
(* posting_date and a status key, on the collaboration fixture.            *)
(***************************************************************************)
DatedUpdateBodies ==
  {[posting_date |-> Some(MaxDate)],
   [title |-> Some(<<"b">>), posting_date |-> None, status |-> "Lead"]}

UpdateDated ==
  \E u \in UserIds, c \in CollabIds, body \in DatedUpdateBodies :
    update_collaboration(u, c, body)

NextPosting == UpdateCollaborationStatus \/ UpdateDated

SpecPosting == InitCollab /\ [][NextPosting]_vars

(***************************************************************************)
(* Cross-account fixture: account 2 owns a brand, a collaboration, an      *)
(* expectation promised for day 1 and stored Pending, a conversation log   *)
(* and an attachment with its file.  Account 1 issues the writing          *)
(* requests, addressed to its own ids, to account 2's ids and to ids that  *)
(* do not exist, while the days pass.                                      *)
(***************************************************************************)
InitCross ==
  /\ users = FixtureUsers
  /\ brands = FixtureBrands
  /\ collabs = FixtureCollabs
  /\ expectations = <<PaymentExpectation(2, 2, Some(1), "Pending")>>
  /\ credits = <<>>
  /\ logs = <<ConversationLog(2, "Email", <<"m">>, 0)>>
  /\ attachments = <<FixtureAttachment(2)>>
  /\ disk = {[path |-> FixturePath(2), complete |-> TRUE]}
  /\ now = 0
  /\ today = 1
  /\ inflight = {}
  /\ resp = NoResponse

Actors == {u \in UserIds : u # 2}

CrossUpdateBrand ==
  \E u \in Actors, b \in BrandIds :
    update_brand(u, b, [name |-> Some(<<"Z">>)]) /\ UNCHANGED inflight

CrossUpdateCollaboration ==
  \E u \in Actors, c \in CollabIds : update_collaboration(u, c, [title |-> Some(<<"b">>)])

CrossUpdateStatus ==
  \E u \in Actors, c \in CollabIds : update_collaboration_status(u, c, "Negotiating", None)

CrossCreateExpectation ==
  \E u \in Actors, c \in CollabIds :
    create_payment_expectation(u, c, 1, Some(1), "loaded")

CrossCreateCredit ==
  \E u \in Actors, p \in ExpectationIds : create_payment_credit(u, p, 1)

CrossListPayments ==
  \E u \in Actors, c \in CollabIds : list_payment_expectations(u, c)

CrossCreateLog ==
  \E u \in Actors, c \in CollabIds : create_conversation_log(u, c, "Email", <<"m">>)

CrossUpload ==
  \E u \in Actors, c \in CollabIds :
    /\ upload_file(u, c, [filename |-> <<"a", ".", "p", "d", "f">>, size |-> Some(1),
                          content |-> <<"x">>], "written")
    /\ UNCHANGED inflight

NextCross ==
  \/ CrossUpdateBrand
  \/ CrossUpdateCollaboration
  \/ CrossUpdateStatus
  \/ CrossCreateExpectation
  \/ CrossCreateCredit
  \/ CrossListPayments
  \/ CrossCreateLog
  \/ CrossUpload
  \/ NextDay

SpecCross == InitCross /\ [][NextCross]_vars

(***************************************************************************)
(* Requests that break a business rule, sent by account 1 to owned,        *)
(* foreign and missing targets on the fixture where each account has an    *)
(* expectation with a credit.  inflight holds the request being served;    *)
(* receiving the next request clears the last response.                    *)
(***************************************************************************)
OrderedStatusUpdates ==
  [status : {"Negotiating", "Confirmed", "InProduction", "Posted", "Closed"},
   posting_date : {None, Some(1)}]

OrderedUploads ==
  [filename : {<<"a", ".", "p", "d", "f">>, <<"a", ".", "e", "x", "e">>},
   size : {Some(1), Some(MAX_FILE_SIZE + 1)},
   content : {<<"x">>}]

ReceiveOrdered ==
  /\ \E u \in Actors :
       \/ \E c \in CollabIds, status_data \in OrderedStatusUpdates :
            inflight' = {Request("update_collaboration_status", u, c, status_data)}
       \/ \E p \in ExpectationIds, a \in 1..(MaxAmount + 1) :
            inflight' = {Request("create_payment_credit", u, p, a)}
       \/ \E c \in CollabIds, file \in OrderedUploads :
            inflight' = {Request("upload_file", u, c, file)}
  /\ resp' = NoResponse
  /\ UNCHANGED <<users, brands, collabs, expectations, credits, logs, attachments, disk,
                 now, today>>

ServeStatusUpdate ==
  \E r \in inflight :
    /\ r.op = "update_collaboration_status"
    /\ update_collaboration_status(r.caller, r.id, r.body.status, r.body.posting_date)

ServeCredit ==
  \E r \in inflight :
    /\ r.op = "create_payment_credit"
    /\ create_payment_credit(r.caller, r.id, r.body)

ServeUpload ==
  \E r \in inflight :
    /\ r.op = "upload_file"
    /\ upload_file(r.caller, r.id, r.body, "written")
    /\ UNCHANGED inflight

NextOrder == ReceiveOrdered \/ ServeStatusUpdate \/ ServeCredit \/ ServeUpload

SpecOrder == InitIso /\ [][NextOrder]_vars

(***************************************************************************)
(* The payment operations in sequence on the ledger fixture, every new     *)
(* expectation created by account 1 for the largest amount and promised    *)
(* for day 1.                                                              *)
(***************************************************************************)
CreateDueExpectation ==
  \E u \in Actors, c \in CollabIds, lazy_load \in LazyLoads :
    create_payment_expectation(u, c, MaxAmount, Some(1), lazy_load)

NextForward ==
  \/ CreateDueExpectation
  \/ CreatePaymentCredit
  \/ ListPaymentExpectations
  \/ ListOverduePayments
  \/ NextDay

SpecForward == InitLedger /\ [][NextForward]_vars

(***************************************************************************)
(* main.py: the composed application.  A path is the sequence of its       *)
(* segments; a route is a method, a path template and the handler it       *)
(* names.  include_router appends a router's routes to the application's;  *)
(* a request goes to the first route whose template and method match, is   *)
(* answered 405 when only templates match and 404 when none does.          *)
(***************************************************************************)
Route(method, path, endpoint) == [method |-> method, path |-> path, endpoint |-> endpoint]

PathParams == {"{brand_id}", "{collaboration_id}", "{payment_id}", "{file_id}"}

auth_router ==
  <<Route("POST", <<"api", "auth", "register">>, "register_user"),
    Route("POST", <<"api", "auth", "login">>, "login_user"),
    Route("GET", <<"api", "auth", "me">>, "get_current_user_profile")>>

brands_router ==
  <<Route("GET", <<"api", "brands", "">>, "list_brands"),
    Route("POST", <<"api", "brands", "">>, "create_brand"),
    Route("GET", <<"api", "brands", "{brand_id}">>, "get_brand"),
    Route("PUT", <<"api", "brands", "{brand_id}">>, "update_brand")>>

collaborations_router ==
  <<Route("GET", <<"api", "collaborations", "">>, "list_collaborations"),
    Route("POST", <<"api", "collaborations", "">>, "create_collaboration"),
    Route("GET", <<"api", "collaborations", "{collaboration_id}">>, "get_collaboration"),
    Route("PUT", <<"api", "collaborations", "{collaboration_id}">>, "update_collaboration"),
    Route("PATCH", <<"api", "collaborations", "{collaboration_id}", "status">>,
          "update_collaboration_status")>>

payments_router ==
  <<Route("GET", <<"api", "collaborations", "{collaboration_id}", "payments">>,
          "list_payment_expectations"),
    Route("POST", <<"api", "collaborations", "{collaboration_id}", "payments">>,
          "create_payment_expectation"),
    Route("POST", <<"api", "payments", "{payment_id}", "credits">>, "create_payment_credit"),
    Route("GET", <<"api", "payments", "overdue">>, "list_overdue_payments")>>

conversations_router ==
  <<Route("GET", <<"api", "collaborations", "{collaboration_id}", "conversations">>,
          "get_conversation_logs"),
    Route("POST", <<"api", "collaborations", "{collaboration_id}", "conversations">>,
          "create_conversation_log"),
    Route("GET", <<"api", "collaborations", "{collaboration_id}", "files">>,
          "get_file_attachments"),
    Route("POST", <<"api", "collaborations", "{collaboration_id}", "files">>, "upload_file"),
    Route("GET", <<"api", "files", "{file_id}">>, "download_file")>>

app_endpoints ==
  <<Route("GET", <<"">>, "root"), Route("GET", <<"health">>, "health_check")>>

every_router ==
  auth_router \o brands_router \o collaborations_router \o payments_router
  \o conversations_router \o app_endpoints

(* app.include_router(auth_router), (brands_router), (collaborations_router), *)
(* then @app.get("/") and @app.get("/health").                                *)
app_routes == auth_router \o brands_router \o collaborations_router \o app_endpoints

path_matches(template, path) ==
  /\ Len(template) = Len(path)
  /\ \A i \in 1..Len(path) :
       IF template[i] \in PathParams THEN path[i] # "" ELSE template[i] = path[i]

(* The endpoint a request is dispatched to. *)
dispatch(routes, method, path) ==
  LET partial == SelectSeq(routes, LAMBDA route : path_matches(route.path, path))
      full == SelectSeq(partial, LAMBDA route : route.method = method)
  IN IF full # <<>> THEN Head(full).endpoint
     ELSE IF partial # <<>> THEN "405"
     ELSE "404"

(* The value of the path parameter, converted to int. *)
path_param(path, i) == parse_decimal(<<path[i]>>)

HttpRequest(method, path, caller, body) ==
  [method |-> method, path |-> path, caller |-> caller, body |-> body]

app(request) ==
  LET endpoint == dispatch(app_routes, request.method, request.path)
      u == request.caller
      path == request.path
      body == request.body
  IN IF endpoint = "root"
     THEN /\ resp' = Response("root", u, 0, 200, <<>>,
                              <<[message |-> "Collab Khata API", version |-> "1.0.0",
                                 status |-> "running"]>>)
          /\ UNCHANGED <<users, brands, collabs, expectations, credits, logs, attachments,
                         disk, now, today, inflight>>
     ELSE IF endpoint = "get_brand"
     THEN get_brand(u, path_param(path, 3)) /\ UNCHANGED inflight
     ELSE IF endpoint = "get_collaboration"
     THEN get_collaboration(u, path_param(path, 3))
     ELSE IF endpoint = "update_collaboration_status"
     THEN update_collaboration_status(u, path_param(path, 3), body.status, body.posting_date)
     ELSE IF endpoint = "list_payment_expectations"
     THEN list_payment_expectations(u, path_param(path, 3))
     ELSE IF endpoint = "create_payment_expectation"
     THEN create_payment_expectation(u, path_param(path, 3), body.expected_amount,
                                     body.promised_date, "loaded")
     ELSE IF endpoint = "create_payment_credit"
     THEN create_payment_credit(u, path_param(path, 3), body.credited_amount)
     ELSE IF endpoint = "create_conversation_log"
     THEN create_conversation_log(u, path_param(path, 3), body.channel, body.message_text)
     ELSE IF endpoint = "upload_file"
     THEN upload_file(u, path_param(path, 3), body, "written") /\ UNCHANGED inflight
     ELSE /\ endpoint \in {"404", "405"}
          /\ resp' = Response("app", u, 0, IF endpoint = "404" THEN 404 ELSE 405,
                              <<IF endpoint = "404" THEN "Not Found"
                                ELSE "Method Not Allowed">>, <<>>)
          /\ UNCHANGED <<users, brands, collabs, expectations, credits, logs, attachments,
                         disk, now, today, inflight>>

(***************************************************************************)
(* Requests to the served application on the collaboration fixture:        *)
(* attached paths, and the payment, conversation and file paths with       *)
(* bodies their handlers would accept.                                     *)
(***************************************************************************)
PathIds == {"1", "2", "3"}

AttachedRequests(u) ==
  {HttpRequest("GET", <<"">>, u, <<>>), HttpRequest("POST", <<"">>, u, <<>>)}
  \cup {HttpRequest("GET", <<"api", "brands", i>>, u, <<>>) : i \in PathIds}
  \cup {HttpRequest("GET", <<"api", "collaborations", i>>, u, <<>>) : i \in PathIds}
  \cup {HttpRequest("PATCH", <<"api", "collaborations", i, "status">>, u,
                    [status |-> "Negotiating", posting_date |-> None]) : i \in PathIds}

UnattachedRequests(u) ==
  {HttpRequest("GET", <<"api", "collaborations", i, "payments">>, u, <<>>) : i \in PathIds}
  \cup {HttpRequest("POST", <<"api", "collaborations", i, "payments">>, u,
                    [expected_amount |-> 1, promised_date |-> None]) : i \in PathIds}
  \cup {HttpRequest("POST", <<"api", "payments", i, "credits">>, u,
                    [credited_amount |-> 1]) : i \in PathIds}
  \cup {HttpRequest("POST", <<"api", "collaborations", i, "conversations">>, u,
                    [channel |-> "Email", message_text |-> <<"m">>]) : i \in PathIds}
  \cup {HttpRequest("POST", <<"api", "collaborations", i, "files">>, u,
                    [filename |-> <<"a", ".", "p", "d", "f">>, size |-> Some(1),
                     content |-> <<"x">>]) : i \in PathIds}

ReceiveHttpRequest ==
  /\ \E u \in UserIds :
       \E request \in AttachedRequests(u) \cup UnattachedRequests(u) :
         inflight' = {request}
  /\ resp' = NoResponse
  /\ UNCHANGED <<users, brands, collabs, expectations, credits, logs, attachments, disk,
                 now, today>>

ServeHttpRequest == \E request \in inflight : app(request)

NextApp == ReceiveHttpRequest \/ ServeHttpRequest

SpecApp == InitCollab /\ [][NextApp]_vars

(***************************************************************************)
(* C1: update-status on an owned collaboration in status `from`, with a    *)
(* posting_date whenever the target is Posted, answers 200 and stores      *)
(* `to` exactly when `to` is listed for `from` in the transition table of  *)
(* the specification; every other pair (from = to included) answers 400    *)
(* and leaves the stored status unchanged.                                 *)
(***************************************************************************)
TransitionTable ==
  {<<"Lead", "Negotiating">>,
   <<"Negotiating", "Confirmed">>, <<"Negotiating", "Lead">>,
   <<"Confirmed", "InProduction">>, <<"Confirmed", "Negotiating">>,
   <<"InProduction", "Posted">>, <<"InProduction", "Confirmed">>,
   <<"Posted", "PaymentPending">>, <<"Posted", "InProduction">>,
   <<"PaymentPending", "Overdue">>, <<"PaymentPending", "Paid">>,
   <<"Overdue", "Paid">>, <<"Overdue", "PaymentPending">>,
   <<"Paid", "Closed">>}

C1_TransitionsExactlyTheTable ==
  [][\A u \in {resp'.caller}, c \in {resp'.id}, to \in CollaborationStatus, d \in OptDates :
       (/\ resp'.op = "update_collaboration_status"
        /\ OwnedCollaboration(u, c)
        /\ (to = "Posted" => ~IsNone(d))
        /\ update_collaboration_status(u, c, to, d))
       => IF <<collabs[c].status, to>> \in TransitionTable
          THEN resp'.code = 200 /\ collabs'[c].status = to
          ELSE resp'.code = 400 /\ collabs'[c].status = collabs[c].status]_vars

C1_Witness ==
  /\ resp.op = "update_collaboration_status"
  /\ resp.code = 200
  /\ \E c \in DOMAIN collabs : collabs[c].status = "Closed"

(***************************************************************************)
(* C2: on an owned collaboration in InProduction, update-status to Posted  *)
(* without a posting_date answers 400 and changes neither status nor       *)
(* posting_date; with a posting_date it answers 200 and stores Posted and  *)
(* that date; a get of the collaboration returns the stored status and     *)
(* posting_date.                                                           *)
(***************************************************************************)
C2_PostedRequiresPostingDate ==
  [][/\ \A u \in {resp'.caller}, c \in {resp'.id}, d \in OptDates :
          (/\ resp'.op = "update_collaboration_status"
           /\ OwnedCollaboration(u, c)
           /\ collabs[c].status = "InProduction"
           /\ update_collaboration_status(u, c, "Posted", d))
          => IF IsNone(d)
             THEN /\ resp'.code = 400
                  /\ collabs'[c].status = "InProduction"
                  /\ collabs'[c].posting_date = collabs[c].posting_date
             ELSE /\ resp'.code = 200
                  /\ collabs'[c].status = "Posted"
                  /\ collabs'[c].posting_date = d
     /\ \A u \in {resp'.caller}, c \in {resp'.id} :
          (/\ resp'.op = "get_collaboration"
           /\ OwnedCollaboration(u, c)
           /\ get_collaboration(u, c))
          => /\ resp'.code = 200
             /\ resp'.body[1].status = collabs[c].status
             /\ resp'.body[1].posting_date = collabs[c].posting_date]_vars

C2_Witness ==
  /\ resp.op = "get_collaboration"
  /\ resp.code = 200
  /\ resp.body[1].status = "Posted"
  /\ resp.body[1].posting_date = Some(MaxDate)

(***************************************************************************)
(* C3: the status recomputation, applied to an expectation with amount E,  *)
(* credit total T and promised date D, stores Completed iff T >= E, else   *)
(* Partial iff T > 0, else Overdue iff D is present and before today, else *)
(* Pending, whatever status was stored before.                             *)
(***************************************************************************)
RECURSIVE CreditTotal(_, _)
CreditTotal(payment_id, i) ==
  IF i = 0 THEN 0
  ELSE CreditTotal(payment_id, i - 1)
       + (IF credits[i].payment_expectation_id = payment_id
          THEN credits[i].credited_amount ELSE 0)

ExpectedStatus(E, T, D) ==
  CASE T >= E -> "Completed"
    [] T < E /\ T > 0 -> "Partial"
    [] T < E /\ T <= 0 /\ D # None /\ D[1] < today -> "Overdue"
    [] OTHER -> "Pending"

C3_StatusIsAFunctionOfAmountCreditsDate ==
  [][\A u \in {resp'.caller}, c \in {resp'.id} :
       (/\ resp'.op = "list_payment_expectations"
        /\ OwnedCollaboration(u, c)
        /\ list_payment_expectations(u, c))
       => \A p \in DOMAIN expectations :
            expectations[p].collaboration_id = c
            => expectations'[p].status =
                 ExpectedStatus(expectations[p].expected_amount,
                                CreditTotal(p, Len(credits)),
                                expectations[p].promised_date)]_vars

C3_Witness ==
  /\ resp.op = "list_payment_expectations"
  /\ resp.code = 200
  /\ resp.id = 1
  /\ expectations[1].status = "Partial"
  /\ expectations[1].promised_date = Some(1)
  /\ today = MaxDate

(***************************************************************************)
(* C4: with create-credit requests run one at a time, the credits of every *)
(* expectation total at most its expected_amount; a rejected request (400) *)
(* asked for more than the remaining balance and persisted nothing, so a   *)
(* request for exactly the remaining balance is accepted.                  *)
(***************************************************************************)
C4_CreditsNeverExceedExpected ==
  /\ \A p \in DOMAIN expectations :
       CreditTotal(p, Len(credits)) <= expectations[p].expected_amount
  /\ (resp.op = "create_payment_credit" /\ resp.code = 400)
     => /\ resp.detail[2] > resp.detail[4]
        /\ resp.detail[4] = expectations[resp.id].expected_amount
                            - CreditTotal(resp.id, Len(credits))
  /\ (resp.op = "create_payment_credit" /\ resp.code = 201)
     => /\ credits[Len(credits)] = resp.body[1]
        /\ resp.body[1].payment_expectation_id = resp.id

C4_Witness ==
  /\ resp.op = "create_payment_credit"
  /\ resp.code = 201
  /\ Len(credits) = 2
  /\ CreditTotal(1, Len(credits)) = expectations[1].expected_amount
  /\ expectations[1].expected_amount = MaxAmount

(***************************************************************************)
(* C5: at most one account exists per email.  Registering an unregistered  *)
(* email creates exactly one account; registering a registered email       *)
(* answers 409, creates no account and leaves every existing account's     *)
(* id, email and password hash as they were, however often it is retried.  *)
(***************************************************************************)
Registered(email) == \E i \in DOMAIN users : users[i].email = email

C5_OneAccountPerEmail ==
  /\ [](\A i, j \in DOMAIN users : users[i].email = users[j].email => i = j)
  /\ [][/\ Len(users') >= Len(users)
         /\ \A i \in DOMAIN users : users'[i] = users[i]
         /\ \A email \in Emails, password \in Passwords, salt \in Salts :
              (Registered(email) /\ register_user_begin(email, password, salt))
              => resp' = Conflict /\ users' = users /\ inflight' = inflight
         /\ \A new_user \in inflight :
              register_user_commit(new_user)
              => IF Registered(new_user.email)
                 THEN resp'.code = 409 /\ users' = users
                 ELSE /\ resp'.code = 201
                      /\ Len(users') = Len(users) + 1
                      /\ users'[Len(users')].email = new_user.email]_vars

C5_Witness ==
  /\ Len(users) = 2
  /\ resp = Conflict
  /\ inflight = {}

(***************************************************************************)
(* C7: login answers 200 with a bearer token exactly when the email is     *)
(* registered and the password verifies against that account's stored      *)
(* hash; every other login gets one and the same 401 response.             *)
(***************************************************************************)
Unauthorized ==
  [op |-> "login_user", caller |-> 0, id |-> 0, code |-> 401,
   detail |-> <<"Invalid email or password", "WWW-Authenticate: Bearer">>, body |-> <<>>]

C7_LoginOnlyWithValidCredentials ==
  [][\A email \in Emails, password \in Passwords :
       login_user(email, password)
       => IF \E i \in DOMAIN users :
               /\ users[i].email = email
               /\ users[i].hashed_password.password = password
          THEN /\ resp'.code = 200
               /\ resp'.body[1].token_type = "bearer"
               /\ users[resp'.body[1].access_token.sub.value].email = email
          ELSE resp' = Unauthorized]_vars

C7_Witness ==
  /\ resp = Unauthorized
  /\ Len(users) = 2

(***************************************************************************)
(* C10: an accepted brand update stores, for every supplied field, its     *)
(* trimmed value (nothing but an absent or empty value when the supplied   *)
(* value is null or blank) and leaves every field that was not supplied,   *)
(* user_id, created_at and the row's id unchanged; a rejected update       *)
(* changes nothing.                                                        *)
(***************************************************************************)
Trimmed(s) ==
  LET kept == {i \in 1..Len(s) : s[i] \notin {" ", "\t", "\n"}}
      first == CHOOSE i \in kept : \A j \in kept : i <= j
      last == CHOOSE i \in kept : \A j \in kept : i >= j
  IN IF kept = {} THEN <<>> ELSE [i \in 1..(last - first + 1) |-> s[first + i - 1]]

C10_BrandUpdateIsPartial ==
  [][\A r \in inflight :
       (r.op = "update_brand" /\ update_brand(r.caller, r.id, r.body))
       => LET b == r.id
              fields_set == r.body
          IN /\ Len(brands') = Len(brands)
             /\ \A other \in DOMAIN brands : other # b => brands'[other] = brands[other]
             /\ IF resp'.code = 200
                THEN /\ \A f \in DOMAIN brands[b] :
                          f \notin DOMAIN fields_set => brands'[b][f] = brands[b][f]
                     /\ \A f \in DOMAIN fields_set :
                          IF fields_set[f] # None /\ Trimmed(fields_set[f][1]) # <<>>
                          THEN brands'[b][f] = <<Trimmed(fields_set[f][1])>>
                          ELSE brands'[b][f] \in {None, <<<<>>>>}
                ELSE brands' = brands]_vars

C10_Witness ==
  /\ resp.op = "update_brand"
  /\ resp.code = 200
  /\ brands[1].name = Some(<<"b">>)
  /\ brands[1].contact_name = Some(<<"n">>)
  /\ brands[1].contact_email = Some(<<>>)
  /\ brands[1].notes = None
  /\ brands[1].user_id = 1

AllowedSet ==
  {<<".", "p", "d", "f">>, <<".", "d", "o", "c">>, <<".", "d", "o", "c", "x">>,
   <<".", "t", "x", "t">>, <<".", "r", "t", "f">>,
   <<".", "j", "p", "g">>, <<".", "j", "p", "e", "g">>, <<".", "p", "n", "g">>,
   <<".", "g", "i", "f">>, <<".", "b", "m", "p">>, <<".", "w", "e", "b", "p">>,
   <<".", "m", "p", "4">>, <<".", "a", "v", "i">>, <<".", "m", "o", "v">>,
   <<".", "w", "m", "v">>, <<".", "f", "l", "v">>, <<".", "w", "e", "b", "m">>,
   <<".", "m", "p", "3">>, <<".", "w", "a", "v">>, <<".", "a", "a", "c">>,
   <<".", "f", "l", "a", "c">>,
   <<".", "z", "i", "p">>, <<".", "r", "a", "r">>, <<".", "7", "z">>,
   <<".", "x", "l", "s">>, <<".", "x", "l", "s", "x">>, <<".", "c", "s", "v">>,
   <<".", "p", "p", "t">>, <<".", "p", "p", "t", "x">>}

Extension(filename) ==
  LET slashes == {i \in 1..Len(filename) : filename[i] = "/"}
      start == IF slashes = {} THEN 1
               ELSE 1 + CHOOSE i \in slashes : \A j \in slashes : j <= i
      dots == {i \in start..Len(filename) : filename[i] = "."}
      dot == CHOOSE i \in dots : \A j \in dots : j <= i
  IN IF dots = {} \/ dot = start \/ dot = Len(filename) THEN <<>>
     ELSE [i \in 1..(Len(filename) - dot + 1) |-> filename[dot + i - 1]]

NotFoundAnswer(op) ==
  IF op = "get_brand" THEN <<"Brand not found">>
  ELSE IF op = "download_file" THEN <<"File not found">>
  ELSE <<"Collaboration not found">>

CallerOwns(op, caller, id) ==
  IF op = "get_brand" THEN id \in DOMAIN brands /\ brands[id].user_id = caller
  ELSE IF op = "download_file"
  THEN id \in DOMAIN attachments
       /\ collabs[attachments[id].collaboration_id].user_id = caller
  ELSE id \in DOMAIN collabs /\ collabs[id].user_id = caller

C11_CreatedAsLead ==
  [][/\ Len(collabs') >= Len(collabs)
     /\ Len(collabs') > Len(collabs) =>
          /\ resp'.op = "create_collaboration"
          /\ resp'.code = 201
          /\ Len(collabs') = Len(collabs) + 1
          /\ resp'.id = Len(collabs')
          /\ collabs'[Len(collabs')].status = "Lead"
          /\ resp'.body[1].status = "Lead"
     /\ \A c \in DOMAIN collabs :
          collabs'[c].status # collabs[c].status =>
            /\ resp'.op = "update_collaboration_status"
            /\ resp'.code = 200
            /\ resp'.id = c]_vars

C11_Witness ==
  /\ resp.op = "create_collaboration"
  /\ resp.code = 201
  /\ resp.caller = 2
  /\ collabs[resp.id].status = "Lead"
  /\ resp.body[1].title = <<"t">>

(***************************************************************************)
(* C12: a general update (PUT) step, accepted or not and whatever keys its *)
(* body carried, leaves status and posting_date of every collaboration as  *)
(* they were; a status or posting_date differs after a step only when the  *)
(* step is an accepted update-status whose move is in the transition       *)
(* table.                                                                  *)
(***************************************************************************)
C12_UpdateKeepsStatusAndPostingDate ==
  [][\A c \in DOMAIN collabs :
       /\ resp'.op = "update_collaboration" =>
            /\ collabs'[c].status = collabs[c].status
            /\ collabs'[c].posting_date = collabs[c].posting_date
       /\ (\/ collabs'[c].status # collabs[c].status
           \/ collabs'[c].posting_date # collabs[c].posting_date) =>
            /\ resp'.op = "update_collaboration_status"
            /\ resp'.code = 200
            /\ resp'.id = c
            /\ <<collabs[c].status, collabs'[c].status>> \in TransitionTable]_vars

C12_Witness ==
  /\ resp.op = "update_collaboration"
  /\ resp.code = 200
  /\ collabs[resp.id].title = <<"b">>
  /\ collabs[resp.id].status = "Posted"
  /\ collabs[resp.id].posting_date = Some(1)
  /\ resp.body[1].status = "Posted"

(***************************************************************************)
(* C13: Closed is the sole terminal status.  A collaboration whose status  *)
(* is Closed is Closed after every step, and no account's update-status on *)
(* it can be accepted; for a collaboration in any of the other eight       *)
(* statuses its owner has an update-status request that is accepted.       *)
(* Closed is reached from the Lead rows of the fixture (witness).          *)
(***************************************************************************)
Accepted(u, c) ==
  \E to \in CollaborationStatus, d \in OptDates :
    /\ update_collaboration_status(u, c, to, d)
    /\ resp'.code = 200

C13_ClosedIsTheSoleTerminalStatus ==
  /\ [](\A c \in DOMAIN collabs :
          IF collabs[c].status = "Closed"
          THEN \A u \in UserIds : ~ENABLED Accepted(u, c)
          ELSE ENABLED Accepted(collabs[c].user_id, c))
  /\ [][\A c \in DOMAIN collabs :
          collabs[c].status = "Closed" => collabs'[c].status = "Closed"]_vars

C13_Witness ==
  /\ resp.op = "update_collaboration_status"
  /\ resp.code = 400
  /\ collabs[resp.id].status = "Closed"
  /\ collabs[resp.id].user_id = resp.caller
  /\ \E c \in DOMAIN collabs : collabs[c].status = "Overdue"

(***************************************************************************)
(* C14: the workflow order and the accepted moves.  As stated, every       *)
(* accepted update-status moves the collaboration to the status            *)
(* immediately after or immediately before its current one.  The table     *)
(* accepts PaymentPending -> Paid, which passes over Overdue; every other  *)
(* accepted move is to a neighbour in the order.                           *)
(***************************************************************************)
WorkflowOrder ==
  <<"Lead", "Negotiating", "Confirmed", "InProduction", "Posted", "PaymentPending",
    "Overdue", "Paid", "Closed">>

Position(s) == CHOOSE i \in DOMAIN WorkflowOrder : WorkflowOrder[i] = s

Neighbours(from, to) ==
  Position(to) = Position(from) + 1 \/ Position(to) = Position(from) - 1

(* C14 as stated: no accepted transition skips a state. *)
C14_NoAcceptedTransitionSkipsAState ==
  [][\A c \in DOMAIN collabs :
       collabs'[c].status # collabs[c].status =>
         Neighbours(collabs[c].status, collabs'[c].status)]_vars

(* C14 amended: every accepted transition is to a neighbour in the order,  *)
(* except PaymentPending -> Paid.                                          *)
C14_OnlyPaymentPendingToPaidSkips ==
  [][\A c \in DOMAIN collabs :
       collabs'[c].status # collabs[c].status =>
         /\ resp'.op = "update_collaboration_status"
         /\ resp'.code = 200
         /\ \/ Neighbours(collabs[c].status, collabs'[c].status)
            \/ /\ collabs[c].status = "PaymentPending"
               /\ collabs'[c].status = "Paid"]_vars

C14_Witness ==
  /\ resp.op = "update_collaboration_status"
  /\ resp.code = 200
  /\ collabs[resp.id].status = "Paid"
  /\ \E c \in DOMAIN collabs : c # resp.id /\ collabs[c].status = "PaymentPending"

(***************************************************************************)
(* C15: registrations of one new email that have all passed the existence  *)
(* check.  The first to commit is answered 201 and adds the account; each  *)
(* later one hits the unique constraint at commit and is answered 409,     *)
(* adding nothing; no registration is answered 500, and after a commit     *)
(* exactly one account has the email.                                      *)
(***************************************************************************)
AccountsWith(table, email) == {i \in DOMAIN table : table[i].email = email}

C15_ConcurrentRegistrationOneWins ==
  /\ [](resp.code # 500)
  /\ [][\A new_user \in inflight :
          inflight' = inflight \ {new_user} =>
            /\ IF Registered(new_user.email)
               THEN resp' = Conflict /\ users' = users
               ELSE /\ resp'.code = 201
                    /\ users' = Append(users, new_user)
                    /\ resp'.body[1].email = new_user.email
            /\ Cardinality(AccountsWith(users', new_user.email)) = 1]_vars

C15_Witness ==
  /\ resp.code = 201
  /\ Len(users) = 1
  /\ \E new_user \in inflight : new_user.email = users[1].email

(***************************************************************************)
(* C16: the credit ceiling is not protected against concurrent requests.   *)
(* While one credit request on an expectation is between its balance check *)
(* and its commit, a second request on the same expectation whose amount   *)
(* is within the balance as stored passes the check too; every request     *)
(* past the check is persisted at its commit with 201, whatever was        *)
(* committed in between.  The credits of an expectation can so sum to more *)
(* than its expected_amount (witness).                                     *)
(***************************************************************************)
Balance(p) == expectations[p].expected_amount - sum_credited(payment_credits(p))

PassesCheck(u, p, a) ==
  /\ create_payment_credit_check(u, p, a)
  /\ inflight' # inflight

C16_ConcurrentCreditsBothPersist ==
  /\ [](\A r \in inflight, a \in Amounts :
          (/\ a <= Balance(r.id)
           /\ Cardinality(inflight) < MaxInflight
           /\ Len(credits) + Cardinality(inflight) < MaxCredits)
          => ENABLED PassesCheck(r.caller, r.id, a))
  /\ [][\A r \in inflight :
          inflight' = inflight \ {r} =>
            /\ resp'.code = 201
            /\ credits' = Append(credits, PaymentCredit(r.id, r.body.credited_amount))]_vars

C16_Witness ==
  /\ resp.op = "create_payment_credit"
  /\ resp.code = 201
  /\ inflight = {}
  /\ sum_credited(payment_credits(1)) > expectations[1].expected_amount
  /\ expectations[1].status = "Completed"

(***************************************************************************)
(* C17: payment status is never served stale.  When create-expectation,    *)
(* create-credit or list-payments has run, every expectation it touched    *)
(* (the one created, the one credited, those of the listed collaboration)  *)
(* has the stored status that the recomputation gives for its amount, its  *)
(* credits as now stored and its promised date, and create-expectation and *)
(* list-payments return that status.                                       *)
(***************************************************************************)
Recomputed(table, credit_table, p) ==
  LET total == sum_credited(SelectSeq(credit_table,
                              LAMBDA credit : credit.payment_expectation_id = p))
  IN ExpectedStatus(table[p].expected_amount, total, table[p].promised_date)

C17_StatusNeverServedStale ==
  [][/\ resp'.op = "create_payment_expectation" =>
          \A p \in DOMAIN expectations' \ DOMAIN expectations :
            /\ expectations'[p].status = Recomputed(expectations', credits', p)
            /\ resp'.code = 201
            /\ resp'.body[1].status = expectations'[p].status
     /\ (resp'.op = "create_payment_credit" /\ resp'.code = 201) =>
          expectations'[resp'.id].status = Recomputed(expectations', credits', resp'.id)
     /\ (resp'.op = "list_payment_expectations" /\ resp'.code = 200) =>
          /\ \A p \in DOMAIN expectations' :
               expectations'[p].collaboration_id = resp'.id =>
                 expectations'[p].status = Recomputed(expectations', credits', p)
          /\ \A i \in DOMAIN resp'.body :
               resp'.body[i].status = Recomputed(expectations', credits', resp'.body[i].id)
    ]_vars

(* The created expectation is stored Pending with its promised date past,  *)
(* and the request was answered 500.                                       *)
C17_Witness ==
  /\ resp.op = "create_payment_expectation"
  /\ resp.code = 500
  /\ Len(expectations) = 1
  /\ expectations[1].status = "Pending"
  /\ expectations[1].promised_date = Some(1)
  /\ today = 2

(***************************************************************************)
(* C18: the overdue report.  A request for it is answered with the         *)
(* caller's expectations whose promised date is before today and whose     *)
(* status is Pending, Partial or Overdue, and no others, in ascending      *)
(* order of promised date; no row's credits reach its expected amount;     *)
(* days_overdue is today minus the promised date and at least 1;           *)
(* total_count is the number of rows.                                      *)
(***************************************************************************)
OverdueOf(table, u, day) ==
  {p \in DOMAIN table :
     /\ collabs[table[p].collaboration_id].user_id = u
     /\ table[p].promised_date # None
     /\ table[p].promised_date[1] < day
     /\ table[p].status \in {"Pending", "Partial", "Overdue"}}

C18_OverdueReportIsExact ==
  [][(resp'.op = "list_overdue_payments" /\ today' = today) =>
       /\ resp'.code = 200
       /\ OverdueOf(expectations', resp'.caller, today)
            = OverdueOf(expectations, resp'.caller, today)
       /\ LET rows == resp'.body[1].overdue_payments
              overdue == OverdueOf(expectations, resp'.caller, today)
          IN /\ {rows[i].id : i \in DOMAIN rows} = overdue
             /\ Len(rows) = Cardinality(overdue)
             /\ resp'.body[1].total_count = Len(rows)
             /\ \A i, j \in DOMAIN rows :
                  i < j => rows[i].promised_date[1] <= rows[j].promised_date[1]
             /\ \A i \in DOMAIN rows :
                  /\ rows[i].promised_date = expectations[rows[i].id].promised_date
                  /\ rows[i].days_overdue = today - rows[i].promised_date[1]
                  /\ rows[i].days_overdue >= 1
                  /\ CreditTotal(rows[i].id, Len(credits)) < rows[i].expected_amount]_vars

(* The caller has an expectation past its promised date and the report     *)
(* request was answered 500.                                               *)
C18_Witness ==
  /\ resp.op = "list_overdue_payments"
  /\ resp.code = 500
  /\ OverdueOf(expectations, resp.caller, today) # {}

(***************************************************************************)
(* C19: a FileAttachment record is made only after the bytes were written. *)
(* Every record references a path whose write completed; a step answered   *)
(* 500 adds no record, also when a partial file was left behind; a record  *)
(* appears only in a step answered 200, one at a time, together with its   *)
(* completely written file.                                                *)
(***************************************************************************)
Written(path) == [path |-> path, complete |-> TRUE] \in disk

DeclaredAbove(file) == file.size # None /\ file.size[1] > 50 * 1024 * 1024

DeclaredAtCeiling(file) == file.size = <<50 * 1024 * 1024>>

LoggedIn == resp.op = "login_user" /\ resp.code = 200

C21_TokenSubjectIsTheIdAsString ==
  /\ [](LoggedIn =>
          \E i \in DOMAIN users : resp.body[1].access_token.sub = PyStr(decimal(i)))
  /\ [][(LoggedIn /\ resp'.op = "get_current_user_profile"
         /\ resp.body[1].access_token.exp > now) =>
          /\ resp'.code = 200
          /\ decimal(resp'.body[1].id) = str(resp.body[1].access_token.sub).value]_vars

(* A login was answered 200 with a token whose subject is the int 1. *)
C21_Witness ==
  /\ LoggedIn
  /\ resp.body[1].access_token.sub = PyInt(1)
  /\ users[1].email = <<"a", "@", "x">>

(***************************************************************************)
(* C22: every stored brand name is non-empty and has no leading or         *)
(* trailing whitespace.  A create whose name is empty or whitespace-only,  *)
(* and an update of an owned brand that supplies name as null, empty or    *)
(* whitespace-only, are answered 400 and leave the brands as they were; an *)
(* accepted create or update with a name stores the trimmed name.          *)
(***************************************************************************)
Blank(o) == o = None \/ Trimmed(o[1]) = <<>>

C22_BrandNamesAreTrimmedAndNonEmpty ==
  /\ [](\A b \in DOMAIN brands :
          /\ brands[b].name # None
          /\ brands[b].name[1] # <<>>
          /\ Trimmed(brands[b].name[1]) = brands[b].name[1])
  /\ [][\A r \in inflight :
          (inflight' = {} /\ "name" \in DOMAIN r.body) =>
            /\ (r.op = "create_brand" /\ r.body["name"] # None /\ Blank(r.body["name"])) =>
                 resp'.code = 400 /\ brands' = brands
            /\ (r.op = "update_brand" /\ OwnedBrand(r.caller, r.id)
                /\ Blank(r.body["name"])) =>
                 resp'.code = 400 /\ brands' = brands
            /\ resp'.code \in {200, 201} =>
                 brands'[resp'.id].name = <<Trimmed(r.body["name"][1])>>]_vars

C22_Witness ==
  /\ resp.op = "update_brand"
  /\ resp.code = 400
  /\ resp.detail = <<"Brand name cannot be empty">>
  /\ brands[resp.id].name = Some(<<"c", " ", "d">>)

(***************************************************************************)
(* C23: in an accepted brand update every supplied, non-null contact_name, *)
(* contact_email, contact_channel or notes is stored trimmed, and stored   *)
(* as absent when the trimmed value is empty.                              *)
(***************************************************************************)
ContactFields == {"contact_name", "contact_email", "contact_channel", "notes"}

C23_BlankContactFieldsStoredAbsent ==
  [][\A r \in inflight :
       (r.op = "update_brand" /\ inflight' = {} /\ resp'.code = 200) =>
         \A f \in ContactFields \cap DOMAIN r.body :
           r.body[f] # None =>
             brands'[r.id][f] = IF Trimmed(r.body[f][1]) = <<>> THEN None
                                ELSE <<Trimmed(r.body[f][1])>>]_vars

(* A whitespace-only contact_email was supplied and an empty string stored. *)
C23_Witness ==
  /\ resp.op = "update_brand"
  /\ resp.code = 200
  /\ brands[1].contact_email = Some(<<>>)

(***************************************************************************)
(* C24: every stored collaboration title and platform is non-blank and     *)
(* trimmed, so a create or update supplying a whitespace-only title or     *)
(* platform never results in a stored blank value.                         *)
(***************************************************************************)
C24_TitleAndPlatformNeverBlank ==
  \A c \in DOMAIN collabs :
    \A f \in {"title", "platform"} :
      /\ collabs[c][f] # <<>>
      /\ strip(collabs[c][f]) = collabs[c][f]

(* A create whose title was whitespace-only was accepted. *)
C24_Witness ==
  /\ resp.op = "create_collaboration"
  /\ resp.code = 201
  /\ collabs[resp.id].title = <<>>

(***************************************************************************)
(* C25: every collaboration's brand_id names a brand of the                *)
(* collaboration's own account; a create, or an update of an owned         *)
(* collaboration, that names a missing brand or another account's brand    *)
(* is answered 400 and changes nothing; and no operation changes the       *)
(* owner of a brand or of a collaboration.                                 *)
(***************************************************************************)
SameAccountBrand(u, b) == b \in DOMAIN brands /\ brands[b].user_id = u

C25_BrandReferenceStaysWithinTheAccount ==
  /\ [](\A c \in DOMAIN collabs : SameAccountBrand(collabs[c].user_id, collabs[c].brand_id))
  /\ [][/\ resp'.op = "create_collaboration" =>
             \A body \in ReferencingCreateBodies :
               (/\ create_collaboration(resp'.caller, body)
                /\ ~SameAccountBrand(resp'.caller, body["brand_id"])) =>
                 /\ resp'.code = 400
                 /\ UNCHANGED <<collabs, brands>>
        /\ (resp'.op = "update_collaboration" /\ resp'.id \in DOMAIN collabs) =>
             \A body \in ReferencingUpdateBodies :
               (/\ update_collaboration(resp'.caller, resp'.id, body)
                /\ collabs[resp'.id].user_id = resp'.caller
                /\ "brand_id" \in DOMAIN body
                /\ ~SameAccountBrand(resp'.caller, body["brand_id"])) =>
                 /\ resp'.code = 400
                 /\ UNCHANGED <<collabs, brands>>
        /\ \A c \in DOMAIN collabs :
             c \in DOMAIN collabs' /\ collabs'[c].user_id = collabs[c].user_id
        /\ \A b \in DOMAIN brands :
             b \in DOMAIN brands' /\ brands'[b].user_id = brands[b].user_id]_vars

(* An update of an owned collaboration naming the other account's brand    *)
(* was answered 400.                                                       *)
C25_Witness ==
  /\ resp.op = "update_collaboration"
  /\ resp.code = 400
  /\ resp.id \in DOMAIN collabs
  /\ collabs[resp.id].user_id = resp.caller
  /\ collabs[resp.id].brand_id = resp.caller

(***************************************************************************)
(* C26: a collaboration in status Posted, PaymentPending, Overdue, Paid or *)
(* Closed has a posting_date; posting_date is written only by an accepted  *)
(* transition to Posted, and no other operation clears or modifies it, the *)
(* step back from Posted to InProduction included.                         *)
(***************************************************************************)
PostedOrLater == {"Posted", "PaymentPending", "Overdue", "Paid", "Closed"}

C26_PostingDateSetOnlyByPosting ==
  /\ [](\A c \in DOMAIN collabs :
          collabs[c].status \in PostedOrLater => collabs[c].posting_date # None)
  /\ [][\A c \in DOMAIN collabs :
          collabs'[c].posting_date # collabs[c].posting_date =>
            /\ resp'.op = "update_collaboration_status"
            /\ resp'.code = 200
            /\ resp'.id = c
            /\ collabs[c].status # "Posted"
            /\ collabs'[c].status = "Posted"
            /\ collabs'[c].posting_date # None]_vars

(* A posted collaboration was taken back to InProduction and kept its      *)
(* posting date.                                                           *)
C26_Witness ==
  /\ resp.op = "update_collaboration_status"
  /\ resp.code = 200
  /\ collabs[resp.id].status = "InProduction"
  /\ collabs[resp.id].posting_date # None

(***************************************************************************)
(* C27: no operation by one account changes a record of another account:   *)
(* update-brand, update-collaboration, update-status, create-expectation,  *)
(* create-credit, create-conversation-log and upload addressed to an id    *)
(* the caller does not own are answered 404 and change nothing, and        *)
(* list-payments on another account's collaboration writes no status.      *)
(***************************************************************************)
CollaborationOwner(c) == IF c \in DOMAIN collabs THEN collabs[c].user_id ELSE 0

ExpectationOwner(p) ==
  IF p \in DOMAIN expectations THEN CollaborationOwner(expectations[p].collaboration_id)
  ELSE 0

(* Everything account u owns, each row with its id. *)
RecordsOf(u) ==
  [brands |-> {<<b, brands[b]>> : b \in {x \in DOMAIN brands : brands[x].user_id = u}},
   collabs |-> {<<c, collabs[c]>> : c \in {x \in DOMAIN collabs : collabs[x].user_id = u}},
   expectations |->
     {<<p, expectations[p]>> : p \in {x \in DOMAIN expectations : ExpectationOwner(x) = u}},
   credits |->
     {<<k, credits[k]>> :
        k \in {x \in DOMAIN credits :
                 ExpectationOwner(credits[x].payment_expectation_id) = u}},
   logs |->
     {<<l, logs[l]>> :
        l \in {x \in DOMAIN logs : CollaborationOwner(logs[x].collaboration_id) = u}},
   attachments |->
     {<<a, attachments[a]>> :
        a \in {x \in DOMAIN attachments :
                 CollaborationOwner(attachments[x].collaboration_id) = u}},
   disk |-> {f \in disk : CollaborationOwner(f.path.collaboration_id) = u}]

WritingOps ==
  {"update_brand", "update_collaboration", "update_collaboration_status",
   "create_payment_expectation", "create_payment_credit", "create_conversation_log",
   "upload_file"}

(* The owner of the record a response's request was addressed to; 0 when   *)
(* there is no such record.                                                *)
AddressedOwner(r) ==
  IF r.op = "update_brand"
  THEN IF r.id \in DOMAIN brands THEN brands[r.id].user_id ELSE 0
  ELSE IF r.op = "create_payment_credit" THEN ExpectationOwner(r.id)
  ELSE CollaborationOwner(r.id)

BreaksARule(r) ==
  \/ r.op = "update_collaboration_status" /\ r.body.status = "Closed"
  \/ r.op = "update_collaboration_status" /\ r.body.status = "Posted"
     /\ r.body.posting_date = None
  \/ r.op = "create_payment_credit" /\ r.body > MaxAmount
  \/ r.op = "upload_file" /\ r.body.filename = <<"a", ".", "e", "x", "e">>
  \/ r.op = "upload_file" /\ r.body.size = Some(MAX_FILE_SIZE + 1)

Answered(r) == resp.op = r.op /\ resp.caller = r.caller /\ resp.id = r.id

Forward ==
  [Pending |-> {"Pending", "Overdue", "Partial", "Completed"},
   Overdue |-> {"Overdue", "Partial", "Completed"},
   Partial |-> {"Partial", "Completed"},
   Completed |-> {"Completed"}]

C29_PaymentStatusOnlyMovesForward ==
  /\ [](\A p \in DOMAIN expectations :
          payment_credits(p) # <<>> => expectations[p].status \in {"Partial", "Completed"})
  /\ [][/\ \A p \in DOMAIN expectations :
             /\ p \in DOMAIN expectations'
             /\ expectations'[p].status \in Forward[expectations[p].status]
             /\ expectations'[p].expected_amount = expectations[p].expected_amount
        /\ \A k \in DOMAIN credits : k \in DOMAIN credits' /\ credits'[k] = credits[k]]_vars

(* A day passed after a partial credit on an expectation promised for an   *)
(* earlier day, the payments were listed, and the status is still Partial. *)
C29_Witness ==
  /\ resp.op = "list_payment_expectations"
  /\ resp.code = 200
  /\ \E p \in DOMAIN expectations :
       /\ expectations[p].collaboration_id = resp.id
       /\ expectations[p].status = "Partial"
       /\ expectations[p].promised_date # None
       /\ expectations[p].promised_date[1] < today

(***************************************************************************)
(* C30: the application attaches exactly the authentication, brand and     *)
(* collaboration routes and the root and health endpoints; a request to a  *)
(* payment, conversation or file path is never dispatched to its handler,  *)
(* so no expectation, credit, conversation log or attachment is created    *)
(* through the served application.                                         *)
(***************************************************************************)
Endpoints(routes) == {routes[i].endpoint : i \in DOMAIN routes}

C30_OnlyAuthBrandAndCollaborationRoutesServed ==
  /\ Endpoints(app_routes) =
       Endpoints(auth_router) \cup Endpoints(brands_router)
       \cup Endpoints(collaborations_router) \cup {"root", "health_check"}
  /\ Endpoints(app_routes) \cap (Endpoints(payments_router) \cup Endpoints(conversations_router)) = {}
  /\ \A request \in inflight :
       (request \in UnattachedRequests(request.caller) /\ resp.op # "none") =>
         /\ resp.op = "app"
         /\ resp.code = 404
  /\ expectations = <<>>
  /\ credits = <<>>
  /\ logs = <<>>
  /\ attachments = <<>>
  /\ disk = {}

(* Account 1 posted a payment expectation for its own collaboration, which *)
(* had already moved to Negotiating through the attached status route, and *)
(* was answered 404.                                                       *)
C30_Witness ==
  /\ resp.op = "app"
  /\ resp.code = 404
  /\ collabs[1].status = "Negotiating"
  /\ \E request \in inflight :
       /\ request.caller = 1
       /\ request.method = "POST"
       /\ request.path = <<"api", "collaborations", "1", "payments">>

====
